---- MODULE Spec2Model ----
(***************************************************************************)
(* A model of the ACrQ tableau of wkrq (src/src/wkrq/acrq_tableau.py):     *)
(* ACrQBranch closure detection, the oracle ("LLM") evaluation rule, the   *)
(* proof-search loop of ACrQTableau.construct and model extraction.        *)
(*                                                                         *)
(* Strings are modelled by their structure.  A predicate name is a record  *)
(* [base, stars]: "P" is [base |-> "P", stars |-> 0], "P*" has stars = 1,  *)
(* so name.endswith("*") is stars > 0, name[:-1] is stars - 1 and          *)
(* name + "*" is stars + 1.  str(formula) is the record [name, terms].     *)
(***************************************************************************)
EXTENDS Integers, Sequences, FiniteSets, TLC

VARIABLES
    initial_formulas,  \* the list handed to ACrQTableau.__init__
    llm_evaluator,     \* TRUE iff an oracle was handed to __init__
    oracle,            \* the oracle's answers so far, by str(formula)
    nodes,             \* Tableau.nodes: node id n is nodes[n]
    branches,          \* Tableau.branches: branch id b is branches[b]
    open_branches,     \* Tableau.open_branches (branch ids, in order)
    closed_branches,   \* Tableau.closed_branches (branch ids, in order)
    pc,                \* position inside construct()
    iteration,         \* construct(): iteration
    selected_branch,   \* construct(): selected_branch (0: none)
    scan_i,            \* position of the rule scan on the selected branch
    applicable_rules,  \* construct(): applicable_rules, in scan order
    result,            \* the TableauResult, <<>> until construct() returns
    oracle_calls,      \* history: invocations of the oracle per <<branch, str>>
    oracle_raised,     \* history: <<branch, str>> for which the oracle raised
    last_oracle,       \* history: what the last step did with the oracle
    constant_counter,  \* ACrQTableau._constant_counter
    max_branching_factor, \* Tableau.max_branching_factor
    rule_applications, \* history: calls of apply_rule in this construct()
    chosen_constants,  \* history: the instantiation constants, in order
    first_run,         \* history: <<>>, or what the first of two runs gave
    statements,        \* TheoryManager.statements, in insertion order
    next_id,           \* TheoryManager.next_id
    last_call,         \* history: the last TheoryManager call and its outcome
    theory_file        \* the file at TheoryManager.theory_file, <<>> if none

vars == <<initial_formulas, llm_evaluator, oracle, nodes, branches,
          open_branches, closed_branches, pc, iteration, selected_branch,
          scan_i, applicable_rules, result, oracle_calls,
          oracle_raised, last_oracle, constant_counter,
          max_branching_factor, rule_applications, chosen_constants,
          first_run, statements, next_id, last_call, theory_file>>

\* the variables of a TheoryManager
theory == <<statements, next_id, last_call, theory_file>>

\* a TheoryManager right after __init__
NoTheory ==
    /\ statements = <<>>
    /\ next_id = 1
    /\ last_call = <<>>
    /\ theory_file = <<>>

\* what no step of construct() changes
fixed == <<initial_formulas, llm_evaluator, max_branching_factor, first_run,
           theory>>

-----------------------------------------------------------------------------
(* Bounds of the model *)

MaxInput == 2      \* longest list of initial signed formulas
MaxInsert == 3     \* longest sequence of insertions into one branch
MaxStars == 2      \* most trailing "*" a predicate name of the model carries
MaxFresh == 2      \* most calls of the fresh-constant generator in one run
MaxAssert == 3     \* most statement ids assert_statement may issue
MaxIds == 5        \* most statement ids a theory may issue in all

(* Program constants *)

max_iterations == 1000
max_chain_iterations == 100
default_max_branching_factor == 1000

-----------------------------------------------------------------------------
(* Signs, truth values, formulas *)

Signs == {"t", "f", "e", "m", "n", "v"}

TruthValues == {"TRUE", "FALSE", "UNDEFINED"}

\* Constant(f"c_{n}"): the names the generator produces, in order
FreshNames == <<"c_1", "c_2", "c_3", "c_4", "c_5", "c_6">>

Constant(n) == FreshNames[n]

\* the constants a user writes in the input; nothing keeps the generator's
\* names out of them
UserConstants == {"a", "b", "c_1"}

Constants == UserConstants \cup {Constant(n) : n \in 1..MaxFresh}

\* the constant names in lexicographic order
ConstantOrder == <<"a", "b", "c_1", "c_2", "c_3", "c_4", "c_5", "c_6">>

Rank(c) == CHOOSE i \in 1..Len(ConstantOrder) : ConstantOrder[i] = c

\* argument tuples: none, or one constant
Terms == {<<>>} \cup {<<c>> : c \in Constants}

Names == [base : {"P", "Q", "R"}, stars : 0..(MaxStars + 1)]

Strs == [name : Names, terms : Terms]

PropositionalAtom(b) ==
    [kind |-> "Propositional", base |-> b, stars |-> 0, neg |-> FALSE,
     terms |-> <<>>]

PredicateFormula(b, s, ts) ==
    [kind |-> "Predicate", base |-> b, stars |-> s, neg |-> FALSE,
     terms |-> ts]

BilateralPredicateFormula(b, s, ts, is_negative) ==
    [kind |-> "Bilateral", base |-> b, stars |-> s, neg |-> is_negative,
     terms |-> ts]

SignedFormula(s, phi) == [sign |-> s, formula |-> phi]

SeqToSet(q) == {q[i] : i \in 1..Len(q)}

\* CompoundFormula(connective, subformulas): "~" has one subformula, "&", "|"
\* and "->" have two
CompoundFormula(connective, subformulas) ==
    [kind |-> "Compound", op |-> connective, subformulas |-> subformulas]

\* [forall X restriction(X)]matrix(X) and [exists X restriction(X)]matrix(X)
RestrictedUniversalFormula(v, restriction, matrix) ==
    [kind |-> "Universal", var |-> v, restriction |-> restriction,
     matrix |-> matrix]

RestrictedExistentialFormula(v, restriction, matrix) ==
    [kind |-> "Existential", var |-> v, restriction |-> restriction,
     matrix |-> matrix]

\* str(formula): a bilateral formula prints negative_name = positive_name + "*"
\* when it is negative; a compound or quantified formula prints its parts.
RECURSIVE Str(_)
Str(phi) ==
    IF phi.kind = "Compound"
    THEN [op |-> phi.op,
          args |-> [i \in 1..Len(phi.subformulas) |-> Str(phi.subformulas[i])]]
    ELSE IF phi.kind \in {"Universal", "Existential"}
    THEN [quantifier |-> phi.kind, var |-> phi.var,
          restriction |-> Str(phi.restriction), matrix |-> Str(phi.matrix)]
    ELSE [name |-> [base |-> phi.base,
                    stars |-> phi.stars
                              + (IF phi.kind = "Bilateral" /\ phi.neg
                                 THEN 1 ELSE 0)],
          terms |-> phi.terms]

\* Formula equality and hashing, as the per-sign index uses them: two atoms
\* are the same key iff their canonical representations agree.
FormulaKey(phi) == Str(phi)

is_atomic(phi) == phi.kind \in {"Propositional", "Predicate", "Bilateral"}

\* BilateralPredicateFormula.get_dual(): the same predicate, other polarity.
get_dual(phi) == [phi EXCEPT !.neg = ~phi.neg]

\* the variables of the model's quantified formulas
Variables == {"X"}

\* formula.substitute: the constant c for the variable v
RECURSIVE substitute(_, _, _)
substitute(phi, v, c) ==
    IF phi.kind = "Compound"
    THEN [phi EXCEPT !.subformulas =
            [i \in 1..Len(phi.subformulas) |->
                substitute(phi.subformulas[i], v, c)]]
    ELSE IF phi.kind \in {"Universal", "Existential"}
    THEN IF phi.var = v
         THEN phi
         ELSE [phi EXCEPT !.restriction = substitute(phi.restriction, v, c),
                          !.matrix = substitute(phi.matrix, v, c)]
    ELSE [phi EXCEPT !.terms =
            [i \in 1..Len(phi.terms) |->
                IF phi.terms[i] = v THEN c ELSE phi.terms[i]]]

\* the constants that occur in a formula (a quantifier's variable is none)
RECURSIVE constants_of(_)
constants_of(phi) ==
    IF phi.kind = "Compound"
    THEN UNION {constants_of(phi.subformulas[i]) :
                  i \in 1..Len(phi.subformulas)}
    ELSE IF phi.kind \in {"Universal", "Existential"}
    THEN (constants_of(phi.restriction) \cup constants_of(phi.matrix))
         \ {phi.var}
    ELSE {phi.terms[i] : i \in 1..Len(phi.terms)} \ Variables

-----------------------------------------------------------------------------
(* Weak-Kleene semantics *)

negation(v) ==
    IF v = "TRUE" THEN "FALSE" ELSE IF v = "FALSE" THEN "TRUE" ELSE "UNDEFINED"

conjunction(v, w) ==
    IF v = "UNDEFINED" \/ w = "UNDEFINED" THEN "UNDEFINED"
    ELSE IF v = "TRUE" /\ w = "TRUE" THEN "TRUE" ELSE "FALSE"

disjunction(v, w) ==
    IF v = "UNDEFINED" \/ w = "UNDEFINED" THEN "UNDEFINED"
    ELSE IF v = "TRUE" \/ w = "TRUE" THEN "TRUE" ELSE "FALSE"

implication(v, w) ==
    IF v = "UNDEFINED" \/ w = "UNDEFINED" THEN "UNDEFINED"
    ELSE IF v = "FALSE" \/ w = "TRUE" THEN "TRUE" ELSE "FALSE"

\* the value of a quantifier-free formula when atom k has the value
\* interpretation[k]
RECURSIVE evaluate(_, _)
evaluate(phi, interpretation) ==
    IF phi.kind # "Compound"
    THEN interpretation[Str(phi)]
    ELSE IF phi.op = "~"
    THEN negation(evaluate(phi.subformulas[1], interpretation))
    ELSE LET v == evaluate(phi.subformulas[1], interpretation)
             w == evaluate(phi.subformulas[2], interpretation)
         IN  IF phi.op = "&" THEN conjunction(v, w)
             ELSE IF phi.op = "|" THEN disjunction(v, w)
             ELSE implication(v, w)

\* the truth values a sign admits
sign_admits(sign) ==
    IF sign = "t" THEN {"TRUE"}
    ELSE IF sign = "f" THEN {"FALSE"}
    ELSE IF sign = "e" THEN {"UNDEFINED"}
    ELSE IF sign = "m" THEN {"TRUE", "FALSE"}
    ELSE IF sign = "n" THEN {"FALSE", "UNDEFINED"}
    ELSE TruthValues

holds(signed_formula, interpretation) ==
    evaluate(signed_formula.formula, interpretation)
        \in sign_admits(signed_formula.sign)

-----------------------------------------------------------------------------
(* ACrQBranch *)

\* Branch.__init__ / ACrQBranch.__init__
NewBranch(branch_id) ==
    [id |-> branch_id, nodes |-> <<>>, formula_index |-> {},
     is_closed |-> FALSE, llm_evaluated |-> {}, ground_terms |-> {},
     universal_instantiations |-> {}, processed |-> {}]

\* len(self.formula_index[sign][formula]) > 0
IndexHit(branch, sign, phi) ==
    \E x \in branch.formula_index : x.sign = sign /\ x.key = FormulaKey(phi)

\* base name and polarity of a predicate, as _is_bilateral_glut reads them
GlutBaseName(phi) ==
    IF phi.kind = "Bilateral"
    THEN [base |-> phi.base, stars |-> phi.stars]
    ELSE IF phi.stars > 0
         THEN [base |-> phi.base, stars |-> phi.stars - 1]
         ELSE [base |-> phi.base, stars |-> phi.stars]

GlutIsNegative(phi) ==
    IF phi.kind = "Bilateral" THEN phi.neg ELSE phi.stars > 0

is_bilateral_glut(ns, branch, phi, sign) ==
    /\ phi.kind \in {"Predicate", "Bilateral"}
    /\ \E x \in branch.formula_index :
          /\ x.sign = sign
          /\ x.key = FormulaKey(phi)
          /\ LET other == ns[x.node].formula
             IN  /\ other.kind \in {"Predicate", "Bilateral"}
                 /\ GlutBaseName(phi) = GlutBaseName(other)
                 /\ GlutIsNegative(phi) # GlutIsNegative(other)
                 /\ phi.terms = other.terms

\* the first other_sign of [t, f, e] that differs from sign and is indexed
\* for the formula; "" when the loop finds none
FirstOtherSign(branch, new_formula) ==
    LET hit(o) == o # new_formula.sign /\ IndexHit(branch, o, new_formula.formula)
    IN  IF hit("t") THEN "t"
        ELSE IF hit("f") THEN "f"
        ELSE IF hit("e") THEN "e"
        ELSE ""

\* a closure test that reads R* as the negation of R: any two t/f/e entries
\* of one base predicate conflict unless sign and polarity both agree
check_contradiction_no_glut(ns, branch, new_formula) ==
    \/ FirstOtherSign(branch, new_formula) # ""
    \/ \E x \in branch.formula_index :
          /\ x.sign = new_formula.sign
          /\ x.key.terms = new_formula.formula.terms
          /\ x.key.name.base = new_formula.formula.base
          /\ x.key # FormulaKey(new_formula.formula)

\* a closure test that never fires
check_contradiction_never(ns, branch, new_formula) == FALSE

check_contradiction(ns, branch, new_formula) ==
    LET other_sign == FirstOtherSign(branch, new_formula)
    IN  IF other_sign = ""
        THEN FALSE
        ELSE IF /\ new_formula.sign = "t"
                /\ other_sign = "t"
                /\ is_bilateral_glut(ns, branch, new_formula.formula,
                                     new_formula.sign)
             THEN FALSE
             ELSE TRUE

\* Branch.add_formula(signed_formula, node): index the node, append it, and
\* close the branch when the closure test fires.  The value is the branch
\* after the call; add_formula's return value is its is_closed.
add_formula(ns, branch, signed_formula, node_id) ==
    LET closes == check_contradiction(ns, branch, signed_formula)
    IN  [branch EXCEPT
            !.nodes = Append(@, node_id),
            !.ground_terms = @ \cup constants_of(signed_formula.formula),
            !.formula_index =
                @ \cup {[sign |-> signed_formula.sign,
                         key |-> FormulaKey(signed_formula.formula),
                         node |-> node_id]},
            !.is_closed = @ \/ closes]

-----------------------------------------------------------------------------
(* The oracle and the rule built from its answer *)

\* what the oracle does when it is called: it returns a BilateralTruthValue
\* or it raises
Returned(pos, neg) == [raises |-> FALSE, positive |-> pos, negative |-> neg]

Raises == [raises |-> TRUE, positive |-> "-", negative |-> "-"]

NotAsked == [raises |-> FALSE, positive |-> "?", negative |-> "?"]

BilateralTruthValues == {Returned(p, n) : p \in TruthValues, n \in TruthValues}

\* the answers an oracle of the proof-search model gives: verified, refuted,
\* glut, gap, or an exception
OracleAnswers ==
    {Returned("TRUE", "FALSE"), Returned("FALSE", "TRUE"),
     Returned("TRUE", "TRUE"), Returned("FALSE", "FALSE"), Raises}

\* the sign chosen by the if/elif chain on one component of the answer
SignsFor(value) ==
    IF value = "TRUE" THEN <<"t">>
    ELSE IF value = "FALSE" THEN <<"f">>
    ELSE IF value = "UNDEFINED" THEN <<"e">>
    ELSE <<>>

\* the dual built for the negative component
dual_formula(phi) ==
    IF phi.kind = "Bilateral"
    THEN get_dual(phi)
    ELSE BilateralPredicateFormula(phi.base, phi.stars, phi.terms, TRUE)

\* a conclusion set that leaves out the positive component
conclusion_set_negative_only(phi, bilateral_value) ==
    LET ns == SignsFor(bilateral_value.negative)
    IN  IF phi.kind \in {"Predicate", "Bilateral"}
        THEN [i \in 1..Len(ns) |-> SignedFormula(ns[i], dual_formula(phi))]
        ELSE <<>>

\* conclusion_set of _create_llm_evaluation_rule
conclusion_set(phi, bilateral_value) ==
    LET ps == SignsFor(bilateral_value.positive)
        ns == SignsFor(bilateral_value.negative)
        positive_part == [i \in 1..Len(ps) |-> SignedFormula(ps[i], phi)]
        negative_part ==
            IF phi.kind \in {"Predicate", "Bilateral"}
            THEN [i \in 1..Len(ns) |-> SignedFormula(ns[i], dual_formula(phi))]
            ELSE <<>>
    IN  positive_part \o negative_part

\* the value of a call of _create_llm_evaluation_rule / _get_applicable_rule:
\* the Optional[RuleInfo] (<<>> is None), whether the oracle was invoked,
\* whether it raised, and whether the exception left the method
RuleResult(r, was_called, has_raised, leaves) ==
    [rule |-> r, called |-> was_called, raised |-> has_raised,
     propagated |-> leaves]

NoRule == RuleResult(<<>>, FALSE, FALSE, FALSE)

\* an oracle rule that sorts after the rules of the table
LLMRuleInfo_last(phi, cs) ==
    [name |-> Str(phi), llm |-> TRUE, rule_type |-> "ALPHA", priority |-> 30,
     complexity_cost |-> Len(cs), conclusions |-> <<cs>>,
     instantiation_constant |-> "", fresh_calls |-> 0]

LLMRuleInfo(phi, cs) ==
    [name |-> Str(phi), llm |-> TRUE, rule_type |-> "ALPHA", priority |-> 5,
     complexity_cost |-> Len(cs), conclusions |-> <<cs>>,
     instantiation_constant |-> "", fresh_calls |-> 0]

\* the method without its try/except around the evaluator call
create_llm_evaluation_rule_no_except(has_evaluator, signed_formula, branch, answer) ==
    IF ~has_evaluator \/ ~is_atomic(signed_formula.formula)
    THEN NoRule
    ELSE IF Str(signed_formula.formula) \in branch.llm_evaluated
    THEN NoRule
    ELSE IF answer.raises
    THEN RuleResult(<<>>, TRUE, TRUE, TRUE)
    ELSE LET cs == conclusion_set(signed_formula.formula, answer)
         IN  IF cs = <<>>
             THEN RuleResult(<<>>, TRUE, FALSE, FALSE)
             ELSE RuleResult(<<LLMRuleInfo(signed_formula.formula, cs)>>,
                             TRUE, FALSE, FALSE)

\* `answer` is what the evaluator does if the method gets to call it
create_llm_evaluation_rule(has_evaluator, signed_formula, branch, answer) ==
    IF ~has_evaluator \/ ~is_atomic(signed_formula.formula)
    THEN NoRule
    ELSE IF Str(signed_formula.formula) \in branch.llm_evaluated
    THEN NoRule
    ELSE IF answer.raises
    THEN RuleResult(<<>>, TRUE, TRUE, FALSE)
    ELSE LET cs == conclusion_set(signed_formula.formula, answer)
         IN  IF cs = <<>>
             THEN RuleResult(<<>>, TRUE, FALSE, FALSE)
             ELSE RuleResult(<<LLMRuleInfo(signed_formula.formula, cs)>>,
                             TRUE, FALSE, FALSE)

-----------------------------------------------------------------------------
(* The rule table *)

\* FergusonRule: <<>> is None.  fresh_calls counts the calls of the
\* fresh-constant generator made while the rule was built.
FergusonRule(rule_name, conclusion_lists) ==
    [name |-> rule_name, conclusions |-> conclusion_lists,
     instantiation_constant |-> "", fresh_calls |-> 0]

is_branching(ferguson_rule) == Len(ferguson_rule.conclusions) > 1

\* a table without the m and n rows
no_branching_sign_rule(sign, phi) == <<>>

\* the rule of a sign m or n on a formula that is no negation
branching_sign_rule(sign, phi) ==
    IF sign = "m"
    THEN <<FergusonRule([sign |-> "m", shape |-> "branching"],
                        <<(<<SignedFormula("t", phi)>>),
                          (<<SignedFormula("f", phi)>>)>>)>>
    ELSE <<FergusonRule([sign |-> "n", shape |-> "branching"],
                        <<(<<SignedFormula("f", phi)>>),
                          (<<SignedFormula("e", phi)>>)>>)>>

\* negation that sends m to f and n to t
negation_rule_definite(sign, phi) ==
    LET sub == phi.subformulas[1]
        to == IF sign \in {"t", "m"} THEN "f"
              ELSE IF sign \in {"f", "n"} THEN "t"
              ELSE "e"
    IN  <<FergusonRule([sign |-> sign, shape |-> "negation"],
                       <<(<<SignedFormula(to, sub)>>)>>)>>

negation_rule(sign, phi) ==
    LET sub == phi.subformulas[1]
        to == IF sign = "t" THEN "f"
              ELSE IF sign = "f" THEN "t"
              ELSE IF sign = "e" THEN "e"
              ELSE IF sign = "m" THEN "n"
              ELSE "m"
    IN  <<FergusonRule([sign |-> sign, shape |-> "negation"],
                       <<(<<SignedFormula(to, sub)>>)>>)>>

\* the form without the branch (e : phi ; e : psi)
two_branches(rule_name, first, second, phi, psi) ==
    <<FergusonRule(rule_name,
                   <<(<<SignedFormula(first, phi)>>),
                     (<<SignedFormula(second, psi)>>)>>)>>

\* the three-branch form: `first` and `second` are the signs of the two
\* one-formula branches, the third branch is (e : phi ; e : psi)
three_branches(rule_name, first, second, phi, psi) ==
    <<FergusonRule(rule_name,
                   <<(<<SignedFormula(first, phi)>>),
                     (<<SignedFormula(second, psi)>>),
                     <<SignedFormula("e", phi), SignedFormula("e", psi)>>>>)>>

error_branches(rule_name, phi, psi) ==
    <<FergusonRule(rule_name,
                   <<(<<SignedFormula("e", phi)>>),
                     (<<SignedFormula("e", psi)>>)>>)>>

binary_rule(sign, formula) ==
    LET phi == formula.subformulas[1]
        psi == formula.subformulas[2]
        rule_name == [sign |-> sign, shape |-> formula.op]
    IN  IF sign \in {"m", "n"}
        THEN branching_sign_rule(sign, formula)
        ELSE IF sign = "e"
        THEN error_branches(rule_name, phi, psi)
        ELSE IF formula.op = "&"
        THEN IF sign = "t"
             THEN <<FergusonRule(rule_name,
                      <<(<<SignedFormula("t", phi), SignedFormula("t", psi)>>)>>)>>
             ELSE three_branches(rule_name, "f", "f", phi, psi)
        ELSE IF formula.op = "|"
        THEN IF sign = "t"
             THEN three_branches(rule_name, "t", "t", phi, psi)
             ELSE <<FergusonRule(rule_name,
                      <<(<<SignedFormula("f", phi), SignedFormula("f", psi)>>)>>)>>
        ELSE IF sign = "t"
             THEN three_branches(rule_name, "f", "t", phi, psi)
             ELSE <<FergusonRule(rule_name,
                      <<(<<SignedFormula("t", phi), SignedFormula("f", psi)>>)>>)>>

\* the first unused constant in the order the list happens to have
next_constant_first(existing_constants, used_constants) ==
    existing_constants[CHOOSE i \in 1..Len(existing_constants) :
        /\ existing_constants[i] \notin used_constants
        /\ \A j \in 1..(i - 1) : existing_constants[j] \in used_constants]

\* the unused constant an instantiating rule takes: the first of
\* ground_terms \ used in the lexicographic order of the names
next_constant(existing_constants, used_constants) ==
    LET unused == SeqToSet(existing_constants) \ used_constants
    IN  CHOOSE c \in unused : \A d \in unused : Rank(c) <= Rank(d)

\* `fresh` is what fresh_constant_generator() returns if the rule calls it
quantifier_rule(sign, formula, fresh, existing_constants, used_constants) ==
    LET rule_name == [sign |-> sign, shape |-> formula.kind]
        phi(c) == substitute(formula.restriction, formula.var, c)
        psi(c) == substitute(formula.matrix, formula.var, c)
        generalizes == \/ sign = "t" /\ formula.kind = "Universal"
                       \/ sign = "f" /\ formula.kind = "Existential"
        unused == SeqToSet(existing_constants) \ used_constants
        c == next_constant(existing_constants, used_constants)
    IN  IF sign \in {"m", "n"}
        THEN branching_sign_rule(sign, formula)
        ELSE IF sign = "e"
        THEN <<>>
        ELSE IF generalizes
        THEN IF unused = {}
             THEN <<>>
             ELSE <<[FergusonRule(rule_name,
                        <<(<<SignedFormula("f", phi(c))>>),
                          (<<SignedFormula(sign, psi(c))>>)>>)
                     EXCEPT !.instantiation_constant = c]>>
        ELSE <<[FergusonRule(rule_name,
                   <<(<<SignedFormula("t", phi(fresh)),
                        SignedFormula(sign, psi(fresh))>>)>>)
                EXCEPT !.instantiation_constant = fresh, !.fresh_calls = 1]>>

\* wkrq_rules.get_applicable_rule: the rule of the table for the premise
get_wkrq_rule(signed_formula, fresh, existing_constants, used_constants) ==
    LET sign == signed_formula.sign
        formula == signed_formula.formula
    IN  IF sign = "v"
        THEN <<>>
        ELSE IF formula.kind = "Compound"
        THEN IF formula.op = "~"
             THEN negation_rule(sign, formula)
             ELSE binary_rule(sign, formula)
        ELSE IF formula.kind \in {"Universal", "Existential"}
        THEN quantifier_rule(sign, formula, fresh, existing_constants,
                             used_constants)
        ELSE IF sign \in {"m", "n"}
        THEN branching_sign_rule(sign, formula)
        ELSE <<>>

\* the bilateral dual that stands for ~p(t): p*(t)
acrq_dual(phi) ==
    IF phi.kind = "Bilateral"
    THEN get_dual(phi)
    ELSE BilateralPredicateFormula(phi.base, phi.stars, phi.terms, TRUE)

\* acrq_ferguson_rules.get_acrq_rule: the bilateral rule for a negated
\* predicate, the wKrQ table for everything else
get_acrq_rule(signed_formula, fresh, existing_constants, used_constants) ==
    LET sign == signed_formula.sign
        formula == signed_formula.formula
    IN  IF /\ sign # "v"
           /\ formula.kind = "Compound"
           /\ formula.op = "~"
           /\ formula.subformulas[1].kind \in {"Predicate", "Bilateral"}
        THEN <<FergusonRule([sign |-> sign, shape |-> "bilateral-negation"],
                            <<(<<SignedFormula(sign,
                                   acrq_dual(formula.subformulas[1]))>>)>>)>>
        ELSE get_wkrq_rule(signed_formula, fresh, existing_constants,
                           used_constants)

\* "used_constants": the constants the branch has instantiated this signed
\* universal with; None (here the empty set) for any other formula
used_constants_never(signed_formula, branch) == {}

used_constants_of(signed_formula, branch) ==
    IF signed_formula.formula.kind = "Universal"
    THEN {x.constant : x \in {y \in branch.universal_instantiations :
                                 y.sign = signed_formula.sign
                                 /\ y.key = FormulaKey(signed_formula.formula)}}
    ELSE {}

\* the RuleInfo made of a FergusonRule
RuleInfoOf(ferguson_rule) ==
    [name |-> ferguson_rule.name,
     llm |-> FALSE,
     rule_type |-> IF is_branching(ferguson_rule) THEN "BETA" ELSE "ALPHA",
     priority |-> IF is_branching(ferguson_rule) THEN 20 ELSE 10,
     complexity_cost |-> Len(ferguson_rule.conclusions),
     conclusions |-> ferguson_rule.conclusions,
     instantiation_constant |-> ferguson_rule.instantiation_constant,
     fresh_calls |-> ferguson_rule.fresh_calls]

\* `fresh` is Constant(_constant_counter + 1); `existing_constants` is
\* list(branch.ground_terms), in the order the set happens to iterate
get_applicable_rule(has_evaluator, signed_formula, branch, answer, fresh, existing_constants) ==
    LET ferguson_rule ==
            get_acrq_rule(signed_formula, fresh, existing_constants,
                          used_constants_of(signed_formula, branch))
    IN  IF ferguson_rule # <<>>
        THEN RuleResult(<<RuleInfoOf(ferguson_rule[1])>>, FALSE, FALSE, FALSE)
        ELSE IF has_evaluator /\ is_atomic(signed_formula.formula)
        THEN create_llm_evaluation_rule(has_evaluator, signed_formula, branch,
                                        answer)
        ELSE NoRule

-----------------------------------------------------------------------------
(* Tableau: construction, the proof-search loop, model extraction *)

TableauNode(signed_formula, parent_id, rule_name) ==
    [sign |-> signed_formula.sign, formula |-> signed_formula.formula,
     parent |-> parent_id, rule |-> rule_name]

\* the atoms of the proof-search model's inputs
InputAtoms ==
    {BilateralPredicateFormula("P", 0, <<"a">>, FALSE),
     BilateralPredicateFormula("P", 0, <<"a">>, TRUE),
     PredicateFormula("Q", 0, <<"a">>)}

InputSigns == {"t", "f"}

InputSigned == {SignedFormula(s, phi) : s \in InputSigns, phi \in InputAtoms}

Inputs == UNION {[1..k -> InputSigned] : k \in 1..MaxInput}

\* Tableau.__init__: one node per initial formula, all on branch 1
InitialNodes(formulas) ==
    [i \in 1..Len(formulas) |-> TableauNode(formulas[i], 0, "")]

RECURSIVE InitialBranch(_, _)
InitialBranch(formulas, k) ==
    IF k = 0
    THEN NewBranch(1)
    ELSE add_formula(InitialNodes(formulas), InitialBranch(formulas, k - 1),
                     formulas[k], k)

NoCalls == [x \in {} |-> 0]

NoAnswers == [k \in Strs |-> NotAsked]

\* the tableau right after ACrQTableau(initial_formulas, llm_evaluator)
Constructed ==
    /\ nodes = InitialNodes(initial_formulas)
    /\ branches = <<InitialBranch(initial_formulas, Len(initial_formulas))>>
    /\ open_branches = IF branches[1].is_closed THEN <<>> ELSE <<1>>
    /\ closed_branches = IF branches[1].is_closed THEN <<1>> ELSE <<>>
    /\ pc = "loop"
    /\ iteration = 0
    /\ selected_branch = 0
    /\ scan_i = 0
    /\ applicable_rules = <<>>
    /\ result = <<>>
    /\ oracle_calls = NoCalls
    /\ oracle_raised = {}
    /\ last_oracle = "none"
    /\ constant_counter = 0
    /\ rule_applications = 0
    /\ chosen_constants = <<>>

Init ==
    /\ initial_formulas \in Inputs
    /\ llm_evaluator \in BOOLEAN
    /\ oracle = NoAnswers
    /\ max_branching_factor = default_max_branching_factor
    /\ first_run = <<>>
    /\ NoTheory
    /\ Constructed

\* list(S): the elements of a set in the order it happens to iterate
Orders(S) ==
    {q \in [1..Cardinality(S) -> S] :
        \A i, j \in 1..Cardinality(S) : q[i] = q[j] => i = j}

NodeSigned(node_id) ==
    SignedFormula(nodes[node_id].sign, nodes[node_id].formula)

\* the rule of the table that is pending for a node of a branch: none once
\* the node's rule has been applied on the branch
pending_rule(branch, node_id) ==
    IF node_id \in branch.processed
    THEN <<>>
    ELSE get_acrq_rule(NodeSigned(node_id), Constant(1),
                       CHOOSE q \in Orders(branch.ground_terms) : TRUE,
                       used_constants_of(NodeSigned(node_id), branch))

\* a completeness test that looks at the rule table only, as a run that
\* stops once a branch holds nothing but atoms would
MayApply_table_only(has_evaluator, branch, node_id) ==
    pending_rule(branch, node_id) # <<>>

\* a rule may still apply to the node: the table has a pending rule for it,
\* or an oracle is installed and the atom is not yet evaluated on the branch
MayApply(has_evaluator, branch, node_id) ==
    \/ pending_rule(branch, node_id) # <<>>
    \/ /\ has_evaluator
       /\ is_atomic(nodes[node_id].formula)
       /\ Str(nodes[node_id].formula) \notin branch.llm_evaluated

admits_rule(b) ==
    \E i \in 1..Len(branches[b].nodes) :
        MayApply(llm_evaluator, branches[b], branches[b].nodes[i])

\* Tableau.is_complete(): no open branch admits a further rule
is_complete ==
    \A b \in SeqToSet(open_branches) : ~admits_rule(b)

unapplied_alpha(b) ==
    Cardinality({i \in 1..Len(branches[b].nodes) :
        LET r == pending_rule(branches[b], branches[b].nodes[i])
        IN  r # <<>> /\ ~is_branching(r[1])})

\* Tableau._select_optimal_branch(): an open branch that admits a rule, the
\* fewest unapplied alpha rules first, ties to the smaller branch id
select_optimal_branch ==
    IF open_branches = <<>>
    THEN 0
    ELSE LET admitting == {b \in SeqToSet(open_branches) : admits_rule(b)}
             pool == IF admitting = {} THEN SeqToSet(open_branches)
                     ELSE admitting
         IN  CHOOSE b \in pool :
                \A c \in pool :
                    \/ unapplied_alpha(b) < unapplied_alpha(c)
                    \/ unapplied_alpha(b) = unapplied_alpha(c) /\ b <= c

\* the while condition of construct()
LoopCondition ==
    /\ open_branches # <<>>
    /\ ~is_complete
    /\ iteration < max_iterations
    /\ Len(branches) < max_branching_factor

\* the loop head without "iteration += 1"
LoopEnter_uncounted ==
    /\ pc = "loop"
    /\ LoopCondition
    /\ iteration' = iteration
    /\ selected_branch' = select_optimal_branch
    /\ pc' = IF select_optimal_branch = 0 THEN "extract" ELSE "scan"
    /\ scan_i' = 1
    /\ applicable_rules' = <<>>
    /\ last_oracle' = "none"
    /\ UNCHANGED <<fixed, oracle, nodes, branches, open_branches,
                   closed_branches, result, oracle_calls, oracle_raised,
                   constant_counter, rule_applications, chosen_constants>>

LoopEnter ==
    /\ pc = "loop"
    /\ LoopCondition
    /\ iteration' = iteration + 1
    /\ selected_branch' = select_optimal_branch
    /\ pc' = IF select_optimal_branch = 0 THEN "extract" ELSE "scan"
    /\ scan_i' = 1
    /\ applicable_rules' = <<>>
    /\ last_oracle' = "none"
    /\ UNCHANGED <<fixed, oracle, nodes, branches, open_branches,
                   closed_branches, result, oracle_calls, oracle_raised,
                   constant_counter, rule_applications, chosen_constants>>

LoopExit ==
    /\ pc = "loop"
    /\ ~LoopCondition
    /\ pc' = "extract"
    /\ last_oracle' = "none"
    /\ UNCHANGED <<fixed, oracle, nodes, branches, open_branches,
                   closed_branches, iteration, selected_branch, scan_i,
                   applicable_rules, result, oracle_calls, oracle_raised,
                   constant_counter, rule_applications, chosen_constants>>

\* _get_prioritized_rules: the scan of the selected branch's nodes, one
\* _get_applicable_rule call per node whose rule is not yet applied
ScanBranch == branches[selected_branch]

ScanNodeId == ScanBranch.nodes[scan_i]

ScanSigned == SignedFormula(nodes[ScanNodeId].sign, nodes[ScanNodeId].formula)

ScanKey == Str(nodes[ScanNodeId].formula)

Scanning == pc = "scan" /\ scan_i <= Len(ScanBranch.nodes)

\* the oracle is a function of the atom: an atom asked before gets the
\* answer it got before
AnswersFor(key) ==
    IF key \notin DOMAIN oracle
    THEN {NotAsked}
    ELSE IF oracle[key] = NotAsked THEN OracleAnswers ELSE {oracle[key]}

ScanRule(answer, existing_constants) ==
    IF ScanNodeId \in ScanBranch.processed
    THEN NoRule
    ELSE get_applicable_rule(llm_evaluator, ScanSigned, ScanBranch, answer,
                             Constant(constant_counter + 1),
                             existing_constants)

FreshCalls(r) == IF r.rule = <<>> THEN 0 ELSE r.rule[1].fresh_calls

Count(calls, x) == IF x \in DOMAIN calls THEN calls[x] ELSE 0

ScanWith(answer, r) ==
    /\ constant_counter + FreshCalls(r) <= MaxFresh
    /\ applicable_rules' =
          IF r.rule = <<>>
          THEN applicable_rules
          ELSE Append(applicable_rules, [node |-> ScanNodeId, rule |-> r.rule[1]])
    /\ scan_i' = scan_i + 1
    /\ pc' = IF r.propagated THEN "exception" ELSE "scan"
    /\ oracle' = IF r.called THEN [oracle EXCEPT ![ScanKey] = answer] ELSE oracle
    /\ oracle_calls' =
          IF r.called
          THEN [x \in DOMAIN oracle_calls \cup {<<selected_branch, ScanKey>>} |->
                  IF x = <<selected_branch, ScanKey>>
                  THEN Count(oracle_calls, x) + 1
                  ELSE oracle_calls[x]]
          ELSE oracle_calls
    /\ oracle_raised' =
          IF r.raised
          THEN oracle_raised \cup {<<selected_branch, ScanKey>>}
          ELSE oracle_raised
    /\ last_oracle' =
          IF r.raised THEN "raised" ELSE IF r.called THEN "returned" ELSE "none"
    /\ constant_counter' = constant_counter + FreshCalls(r)
    /\ UNCHANGED <<fixed, nodes, branches, open_branches, closed_branches,
                   iteration, selected_branch, result, rule_applications,
                   chosen_constants>>

\* the node needs no oracle call: its rule is applied, the table has a rule
\* for it, no oracle is installed, or the atom is evaluated
ScanNoCall ==
    /\ Scanning
    /\ \E existing_constants \in Orders(ScanBranch.ground_terms) :
          LET r == ScanRule(NotAsked, existing_constants)
          IN  ~r.called /\ ScanWith(NotAsked, r)

ScanOracleReturns ==
    /\ Scanning
    /\ \E answer \in AnswersFor(ScanKey) :
          LET r == ScanRule(answer, <<>>)
          IN  r.called /\ ~r.raised /\ ScanWith(answer, r)

ScanOracleRaises ==
    /\ Scanning
    /\ \E answer \in AnswersFor(ScanKey) :
          LET r == ScanRule(answer, <<>>)
          IN  r.called /\ r.raised /\ ScanWith(answer, r)

ScanEnded == pc = "scan" /\ scan_i > Len(ScanBranch.nodes)

\* "if not applicable_rules: break"
NoApplicableRule ==
    /\ ScanEnded
    /\ applicable_rules = <<>>
    /\ pc' = "extract"
    /\ last_oracle' = "none"
    /\ UNCHANGED <<fixed, oracle, nodes, branches, open_branches,
                   closed_branches, iteration, selected_branch, scan_i,
                   applicable_rules, result, oracle_calls, oracle_raised,
                   constant_counter, rule_applications, chosen_constants>>

\* the sort of _get_prioritized_rules: priority, then cost, then node id
Before(x, y) ==
    \/ x.rule.priority < y.rule.priority
    \/ /\ x.rule.priority = y.rule.priority
       /\ x.rule.complexity_cost < y.rule.complexity_cost
    \/ /\ x.rule.priority = y.rule.priority
       /\ x.rule.complexity_cost = y.rule.complexity_cost
       /\ x.node <= y.node

best_rule ==
    CHOOSE x \in SeqToSet(applicable_rules) :
        \A y \in SeqToSet(applicable_rules) : Before(x, y)

\* a loop over one conclusion list that goes on after the branch has closed
RECURSIVE AddConclusions_all(_, _, _, _, _, _)
AddConclusions_all(ns, branch, conclusions, i, parent_id, rule_name) ==
    IF i > Len(conclusions)
    THEN [nodes |-> ns, branch |-> branch]
    ELSE LET ns2 == Append(ns, TableauNode(conclusions[i], parent_id, rule_name))
         IN  AddConclusions_all(ns2,
                                add_formula(ns2, branch, conclusions[i], Len(ns2)),
                                conclusions, i + 1, parent_id, rule_name)

\* the loop of apply_rule over one conclusion list: a node per conclusion,
\* stopping at the conclusion that closes the branch
RECURSIVE AddConclusions(_, _, _, _, _, _)
AddConclusions(ns, branch, conclusions, i, parent_id, rule_name) ==
    IF i > Len(conclusions) \/ branch.is_closed
    THEN [nodes |-> ns, branch |-> branch]
    ELSE LET ns2 == Append(ns, TableauNode(conclusions[i], parent_id, rule_name))
         IN  AddConclusions(ns2,
                            add_formula(ns2, branch, conclusions[i], Len(ns2)),
                            conclusions, i + 1, parent_id, rule_name)

RemoveFrom(q, x) == SelectSeq(q, LAMBDA y : y # x)

\* an apply_rule for LLM-Eval rules that leaves out the evaluated mark
llm_apply_rule_unmarked(node_id, branch_id, rule_info) ==
    IF Len(rule_info.conclusions) # 1
    THEN UNCHANGED <<nodes, branches, open_branches, closed_branches>>
    ELSE LET after == AddConclusions(nodes, branches[branch_id],
                                     rule_info.conclusions[1], 1, node_id,
                                     "LLM-Eval")
         IN  /\ nodes' = after.nodes
             /\ branches' = [branches EXCEPT ![branch_id] = after.branch]
             /\ IF after.branch.is_closed
                THEN /\ open_branches' = RemoveFrom(open_branches, branch_id)
                     /\ closed_branches' =
                           IF branch_id \in SeqToSet(open_branches)
                           THEN Append(closed_branches, branch_id)
                           ELSE closed_branches
                ELSE UNCHANGED <<open_branches, closed_branches>>

\* ACrQTableau.apply_rule for an LLM-Eval rule
llm_apply_rule(node_id, branch_id, rule_info) ==
    IF Len(rule_info.conclusions) # 1
    THEN UNCHANGED <<nodes, branches, open_branches, closed_branches>>
    ELSE LET after == AddConclusions(nodes, branches[branch_id],
                                     rule_info.conclusions[1], 1, node_id,
                                     "LLM-Eval")
         IN  /\ nodes' = after.nodes
             /\ IF after.branch.is_closed
                THEN /\ branches' = [branches EXCEPT ![branch_id] = after.branch]
                     /\ open_branches' = RemoveFrom(open_branches, branch_id)
                     /\ closed_branches' =
                           IF branch_id \in SeqToSet(open_branches)
                           THEN Append(closed_branches, branch_id)
                           ELSE closed_branches
                ELSE /\ branches' =
                           [branches EXCEPT ![branch_id] =
                              [after.branch EXCEPT !.llm_evaluated =
                                 @ \cup {Str(nodes[node_id].formula)}]]
                     /\ UNCHANGED <<open_branches, closed_branches>>

\* the branch once the rule of one of its nodes is applied: a universal
\* remembers the constant it was instantiated with, any other node is done
rule_recorded(branch, node_id, rule_info) ==
    IF /\ nodes[node_id].formula.kind = "Universal"
       /\ rule_info.instantiation_constant # ""
       /\ rule_info.fresh_calls = 0
    THEN [branch EXCEPT
            !.universal_instantiations =
                @ \cup {[sign |-> nodes[node_id].sign,
                         key |-> FormulaKey(nodes[node_id].formula),
                         constant |-> rule_info.instantiation_constant]}]
    ELSE [branch EXCEPT !.processed = @ \cup {node_id}]

\* the children of a branch, one per conclusion list: the first takes the
\* branch's place, the others are new branches with copies of its index and
\* memo sets; a child that closes goes to the closed branches
RECURSIVE Expand(_, _, _, _, _, _)
Expand(tableau, parent, conclusions, i, node_id, rule_name) ==
    IF i > Len(conclusions)
    THEN tableau
    ELSE LET branch_id == IF i = 1 THEN parent.id
                          ELSE Len(tableau.branches) + 1
             after == AddConclusions(tableau.nodes,
                                     [parent EXCEPT !.id = branch_id],
                                     conclusions[i], 1, node_id, rule_name)
             closes == after.branch.is_closed
         IN  Expand([nodes |-> after.nodes,
                     branches |->
                        IF i = 1
                        THEN [tableau.branches EXCEPT ![branch_id] = after.branch]
                        ELSE Append(tableau.branches, after.branch),
                     open |->
                        IF closes THEN RemoveFrom(tableau.open, branch_id)
                        ELSE IF i = 1 THEN tableau.open
                        ELSE Append(tableau.open, branch_id),
                     closed |->
                        IF closes THEN Append(tableau.closed, branch_id)
                        ELSE tableau.closed],
                    parent, conclusions, i + 1, node_id, rule_name)

\* Tableau.apply_rule: a rule of the table
base_apply_rule(node_id, branch_id, rule_info) ==
    LET after ==
            Expand([nodes |-> nodes, branches |-> branches,
                    open |-> open_branches, closed |-> closed_branches],
                   rule_recorded(branches[branch_id], node_id, rule_info),
                   rule_info.conclusions, 1, node_id,
                   rule_info.name.sign \o "-" \o rule_info.name.shape)
    IN  /\ nodes' = after.nodes
        /\ branches' = after.branches
        /\ open_branches' = after.open
        /\ closed_branches' = after.closed

\* ACrQTableau.apply_rule
apply_rule(node_id, branch_id, rule_info) ==
    IF rule_info.llm
    THEN llm_apply_rule(node_id, branch_id, rule_info)
    ELSE base_apply_rule(node_id, branch_id, rule_info)

\* "best_rule = applicable_rules[0]; self.apply_rule(node, selected_branch,
\* rule_info)"; the early-termination block after it changes nothing (with
\* an oracle early_termination is off, without one its break leaves only the
\* inner for loop)
ApplyBestRule ==
    /\ ScanEnded
    /\ applicable_rules # <<>>
    /\ apply_rule(best_rule.node, selected_branch, best_rule.rule)
    /\ pc' = "loop"
    /\ last_oracle' = "none"
    /\ rule_applications' = rule_applications + 1
    /\ chosen_constants' =
          IF best_rule.rule.instantiation_constant = ""
          THEN chosen_constants
          ELSE Append(chosen_constants, best_rule.rule.instantiation_constant)
    /\ UNCHANGED <<fixed, oracle, iteration, selected_branch, scan_i,
                   applicable_rules, result, oracle_calls, oracle_raised,
                   constant_counter>>

-----------------------------------------------------------------------------
(* Model extraction and the result *)

\* the ground atoms that occur in a formula, by str(atom)
RECURSIVE atoms_of(_)
atoms_of(phi) ==
    IF phi.kind = "Compound"
    THEN UNION {atoms_of(phi.subformulas[i]) : i \in 1..Len(phi.subformulas)}
    ELSE IF phi.kind \in {"Universal", "Existential"}
    THEN atoms_of(phi.restriction) \cup atoms_of(phi.matrix)
    ELSE IF \E i \in 1..Len(phi.terms) : phi.terms[i] \in Variables
    THEN {}
    ELSE {Str(phi)}

\* the atoms of the formulas on the branch
BranchKeys(branch) ==
    UNION {atoms_of(nodes[branch.nodes[i]].formula) : i \in 1..Len(branch.nodes)}

KeyValue(branch, key) ==
    IF \E x \in branch.formula_index : x.key = key /\ x.sign = "t"
    THEN "TRUE"
    ELSE IF \E x \in branch.formula_index : x.key = key /\ x.sign = "f"
    THEN "FALSE"
    ELSE IF \E x \in branch.formula_index : x.key = key /\ x.sign = "e"
    THEN "UNDEFINED"
    ELSE "FALSE"

\* Tableau._extract_model: the valuation of the atoms of an open branch, by
\* str(atom): TRUE under t, FALSE under f, UNDEFINED under e, FALSE otherwise
valuations_of(branch) ==
    {[atom |-> k, value |-> KeyValue(branch, k)] : k \in BranchKeys(branch)}

StripStar(name) ==
    IF name.stars > 0 THEN [name EXCEPT !.stars = @ - 1] ELSE name

\* a lookup whose missing side is UNDEFINED
Lookup_undefined(valuations, key, default) ==
    IF \E x \in valuations : x.atom = key
    THEN (CHOOSE x \in valuations : x.atom = key).value
    ELSE "UNDEFINED"

Lookup(valuations, key, default) ==
    IF \E x \in valuations : x.atom = key
    THEN (CHOOSE x \in valuations : x.atom = key).value
    ELSE default

\* ACrQModel.__post_init__: one entry per base name and argument tuple;
\* the positive side is set from the atoms whose name has no trailing "*",
\* the negative side from those that have one, each defaulting to FALSE
bilateral_valuations_of(valuations) ==
    LET keys == {[name |-> StripStar(x.atom.name), terms |-> x.atom.terms] :
                   x \in {y \in valuations : y.atom.terms # <<>>}}
        starred(k) == [k EXCEPT !.name.stars = @ + 1]
    IN  {[key |-> k,
          positive |-> IF k.name.stars = 0
                       THEN Lookup(valuations, k, "FALSE")
                       ELSE "FALSE",
          negative |-> Lookup(valuations, starred(k), "FALSE")] : k \in keys}

\* ACrQTableau._extract_model
extract_model(branch) ==
    [valuations |-> valuations_of(branch),
     bilateral_valuations |-> bilateral_valuations_of(valuations_of(branch))]

\* the model loop of construct(): one model per open branch that is not
\* closed, without repetitions
RECURSIVE ModelsOf(_, _)
ModelsOf(open, k) ==
    IF k = 0
    THEN <<>>
    ELSE LET before == ModelsOf(open, k - 1)
             branch == branches[open[k]]
         IN  IF branch.is_closed \/ extract_model(branch) \in SeqToSet(before)
             THEN before
             ELSE Append(before, extract_model(branch))

\* a result whose verdict is "no branch has closed"
TableauResult_none_closed ==
    LET models == ModelsOf(open_branches, Len(open_branches))
    IN  [satisfiable |-> closed_branches = <<>>,
         models |-> models,
         closed_branches |-> Len(closed_branches),
         open_branches |-> Len(open_branches),
         total_nodes |-> Len(nodes)]

TableauResult ==
    LET models == ModelsOf(open_branches, Len(open_branches))
    IN  [satisfiable |-> Len(models) > 0,
         models |-> models,
         closed_branches |-> Len(closed_branches),
         open_branches |-> Len(open_branches),
         total_nodes |-> Len(nodes)]

Return ==
    /\ pc = "extract"
    /\ result' = <<TableauResult>>
    /\ pc' = "done"
    /\ last_oracle' = "none"
    /\ UNCHANGED <<fixed, oracle, nodes, branches, open_branches,
                   closed_branches, iteration, selected_branch, scan_i,
                   applicable_rules, oracle_calls, oracle_raised,
                   constant_counter, rule_applications, chosen_constants>>

Next ==
    \/ LoopEnter
    \/ LoopExit
    \/ ScanNoCall
    \/ ScanOracleReturns
    \/ ScanOracleRaises
    \/ NoApplicableRule
    \/ ApplyBestRule
    \/ Return

Spec == Init /\ [][Next]_vars

-----------------------------------------------------------------------------
(* construct() on compound and quantified inputs, with a branch cap the
   caller may have set *)

P == PropositionalAtom("P")

Q == PropositionalAtom("Q")

Px(x) == PredicateFormula("P", 0, <<x>>)

Qx(x) == PredicateFormula("Q", 0, <<x>>)

Rx(x) == PredicateFormula("R", 0, <<x>>)

Not(phi) == CompoundFormula("~", <<phi>>)

And(phi, psi) == CompoundFormula("&", <<phi, psi>>)

Or(phi, psi) == CompoundFormula("|", <<phi, psi>>)

Implies(phi, psi) == CompoundFormula("->", <<phi, psi>>)

AllPQ == RestrictedUniversalFormula("X", Px("X"), Qx("X"))

SomePQ == RestrictedExistentialFormula("X", Px("X"), Qx("X"))

\* solve([f : phi, e : phi]): the tableau valid(phi) builds
validity_check(phi) == <<SignedFormula("f", phi), SignedFormula("e", phi)>>

\* solve([t : p for p in premises] + [n : conclusion]): the tableau
\* entails(premises, conclusion) builds
RECURSIVE entailment_check(_, _)
entailment_check(premises, conclusion) ==
    IF premises = <<>>
    THEN <<SignedFormula("n", conclusion)>>
    ELSE <<SignedFormula("t", Head(premises))>>
            \o entailment_check(Tail(premises), conclusion)

ModusPonens == Implies(And(P, Implies(P, Q)), Q)

\* [forall X Human(X)]Mortal(X), Human(socrates) |- Mortal(socrates), with
\* P for Human, Q for Mortal and a for socrates
Syllogism == entailment_check(<<AllPQ, Px("a")>>, Qx("a"))

\* the end-to-end scenarios: validity checks and an entailment check
ScenarioInputs ==
    {validity_check(Or(P, Not(P))),
     validity_check(Implies(P, P)),
     validity_check(ModusPonens),
     Syllogism}

\* the inputs of the runs without an oracle
TableauInputs ==
    {<<SignedFormula("t", Or(P, Q))>>,
     <<SignedFormula("t", Or(P, Not(P)))>>,
     <<SignedFormula("t", And(P, Not(P)))>>,
     <<SignedFormula("t", Implies(P, Q)), SignedFormula("t", P)>>,
     <<SignedFormula("f", Or(P, Q))>>,
     <<SignedFormula("e", And(P, Q))>>,
     <<SignedFormula("m", Or(P, Q))>>,
     <<SignedFormula("n", Not(P))>>,
     <<SignedFormula("t", Or(Or(P, Q), Q))>>,
     <<SignedFormula("t", Not(Px("a"))), SignedFormula("t", Px("a"))>>,
     <<SignedFormula("t", AllPQ), SignedFormula("t", Rx("a")),
       SignedFormula("t", Rx("b"))>>,
     <<SignedFormula("t", AllPQ), SignedFormula("t", Px("a")),
       SignedFormula("f", Qx("b"))>>,
     <<SignedFormula("t", SomePQ), SignedFormula("t", Qx("a"))>>,
     <<SignedFormula("t", SomePQ), SignedFormula("t", Px("c_1"))>>,
     <<SignedFormula("t", AllPQ), SignedFormula("t", SomePQ)>>,
     <<SignedFormula("f", AllPQ), SignedFormula("t", Rx("a"))>>}
    \cup ScenarioInputs

\* the inputs of the runs with an oracle
OracleTableauInputs ==
    {<<SignedFormula("t", Or(P, Q))>>,
     <<SignedFormula("t", And(P, Not(P)))>>,
     <<SignedFormula("t", SomePQ)>>,
     <<SignedFormula("t", Or(P, Q)), SignedFormula("t", Px("a"))>>}

\* the values of Tableau.max_branching_factor: the default, or a small cap
\* set by the caller
BranchCaps == {2, 3, default_max_branching_factor}

InitTableau ==
    /\ llm_evaluator \in BOOLEAN
    /\ initial_formulas \in
          IF llm_evaluator THEN OracleTableauInputs ELSE TableauInputs
    /\ oracle = NoAnswers
    /\ max_branching_factor \in BranchCaps
    /\ first_run = <<>>
    /\ NoTheory
    /\ Constructed

SpecTableau == InitTableau /\ [][Next]_vars

\* a second ACrQTableau for the same initial formulas, options and oracle,
\* built once the first construct() has returned; the first run's result and
\* the constants it chose are kept for comparison
SolveAgain ==
    /\ pc = "done"
    /\ first_run = <<>>
    /\ first_run' = <<[result |-> result[1], constants |-> chosen_constants]>>
    /\ UNCHANGED <<initial_formulas, llm_evaluator, max_branching_factor,
                   oracle, theory>>
    /\ nodes' = InitialNodes(initial_formulas)
    /\ branches' = <<InitialBranch(initial_formulas, Len(initial_formulas))>>
    /\ open_branches' = IF branches'[1].is_closed THEN <<>> ELSE <<1>>
    /\ closed_branches' = IF branches'[1].is_closed THEN <<1>> ELSE <<>>
    /\ pc' = "loop"
    /\ iteration' = 0
    /\ selected_branch' = 0
    /\ scan_i' = 0
    /\ applicable_rules' = <<>>
    /\ result' = <<>>
    /\ oracle_calls' = NoCalls
    /\ oracle_raised' = {}
    /\ last_oracle' = "none"
    /\ constant_counter' = 0
    /\ rule_applications' = 0
    /\ chosen_constants' = <<>>

NextTwice ==
    \/ Next
    \/ SolveAgain

SpecTwice == InitTableau /\ [][NextTwice]_vars

-----------------------------------------------------------------------------
(* One ACrQBranch under arbitrary insertions *)

BranchAtoms ==
    {PredicateFormula("P", 0, <<"a">>),
     BilateralPredicateFormula("P", 0, <<"a">>, TRUE),
     PropositionalAtom("R")}

BranchSigned == {SignedFormula(s, phi) : s \in Signs, phi \in BranchAtoms}

InitBranch ==
    /\ initial_formulas = <<>>
    /\ llm_evaluator = FALSE
    /\ oracle = NoAnswers
    /\ nodes = <<>>
    /\ branches = <<NewBranch(1)>>
    /\ open_branches = <<1>>
    /\ closed_branches = <<>>
    /\ pc = "branch"
    /\ iteration = 0
    /\ selected_branch = 0
    /\ scan_i = 0
    /\ applicable_rules = <<>>
    /\ result = <<>>
    /\ oracle_calls = NoCalls
    /\ oracle_raised = {}
    /\ last_oracle = "none"
    /\ constant_counter = 0
    /\ max_branching_factor = default_max_branching_factor
    /\ rule_applications = 0
    /\ chosen_constants = <<>>
    /\ first_run = <<>>
    /\ NoTheory

\* branch.add_formula(signed_formula, node) on an open branch
InsertFormula ==
    /\ pc = "branch"
    /\ Len(nodes) < MaxInsert
    /\ ~branches[1].is_closed
    /\ \E sf \in BranchSigned :
          /\ nodes' = Append(nodes, TableauNode(sf, 0, ""))
          /\ branches' = <<add_formula(nodes', branches[1], sf, Len(nodes'))>>
    /\ UNCHANGED <<fixed, oracle, open_branches, closed_branches, pc,
                   iteration, selected_branch, scan_i, applicable_rules,
                   result, oracle_calls, oracle_raised, last_oracle,
                   constant_counter, rule_applications, chosen_constants>>

NextBranch == InsertFormula

SpecBranch == InitBranch /\ [][NextBranch]_vars

-----------------------------------------------------------------------------
(* The oracle rule as a function of the atom and the oracle's value *)

RuleAtoms ==
    {PropositionalAtom("R"),
     PredicateFormula("P", 0, <<"a">>),
     PredicateFormula("P", 1, <<"a">>),
     BilateralPredicateFormula("P", 0, <<"a">>, FALSE),
     BilateralPredicateFormula("P", 0, <<"a">>, TRUE)}

RuleSigned == {SignedFormula(s, phi) : s \in Signs, phi \in RuleAtoms}

InitRule ==
    /\ initial_formulas \in [1..1 -> RuleSigned]
    /\ llm_evaluator = TRUE
    /\ \E value \in BilateralTruthValues :
          oracle = [NoAnswers EXCEPT ![Str(initial_formulas[1].formula)] = value]
    /\ nodes = InitialNodes(initial_formulas)
    /\ branches = <<InitialBranch(initial_formulas, 1)>>
    /\ open_branches = <<1>>
    /\ closed_branches = <<>>
    /\ pc = "rule"
    /\ iteration = 0
    /\ selected_branch = 1
    /\ scan_i = 1
    /\ applicable_rules = <<>>
    /\ result = <<>>
    /\ oracle_calls = NoCalls
    /\ oracle_raised = {}
    /\ last_oracle = "none"
    /\ constant_counter = 0
    /\ max_branching_factor = default_max_branching_factor
    /\ rule_applications = 0
    /\ chosen_constants = <<>>
    /\ first_run = <<>>
    /\ NoTheory

\* one call of _create_llm_evaluation_rule on the node of the atom
BuildRule ==
    /\ pc = "rule"
    /\ LET r == create_llm_evaluation_rule(llm_evaluator, ScanSigned,
                                           ScanBranch, oracle[ScanKey])
       IN  /\ applicable_rules' =
                 IF r.rule = <<>>
                 THEN <<>>
                 ELSE <<[node |-> ScanNodeId, rule |-> r.rule[1]]>>
           /\ oracle_calls' =
                 [x \in {<<selected_branch, ScanKey>>} |->
                    Count(oracle_calls, x) + 1]
    /\ pc' = "built"
    /\ last_oracle' = "returned"
    /\ UNCHANGED <<fixed, oracle, nodes, branches, open_branches,
                   closed_branches, iteration, selected_branch, scan_i,
                   result, oracle_raised, constant_counter,
                   rule_applications, chosen_constants>>

NextRule == BuildRule

SpecRule == InitRule /\ [][NextRule]_vars

-----------------------------------------------------------------------------
(* The rule table as a function of the premise *)

TableFormulas ==
    {P, Q, Not(P), Not(Q), Not(Not(P))}
    \cup {CompoundFormula(op, <<phi, psi>>) :
            op \in {"&", "|", "->"}, phi \in {P, Q}, psi \in {P, Q}}

TableSigned == {SignedFormula(s, phi) : s \in Signs, phi \in TableFormulas}

InitTable ==
    /\ initial_formulas \in [1..1 -> TableSigned]
    /\ llm_evaluator = FALSE
    /\ oracle = NoAnswers
    /\ nodes = InitialNodes(initial_formulas)
    /\ branches = <<InitialBranch(initial_formulas, 1)>>
    /\ open_branches = <<1>>
    /\ closed_branches = <<>>
    /\ pc = "table"
    /\ iteration = 0
    /\ selected_branch = 1
    /\ scan_i = 1
    /\ applicable_rules = <<>>
    /\ result = <<>>
    /\ oracle_calls = NoCalls
    /\ oracle_raised = {}
    /\ last_oracle = "none"
    /\ constant_counter = 0
    /\ max_branching_factor = default_max_branching_factor
    /\ rule_applications = 0
    /\ chosen_constants = <<>>
    /\ first_run = <<>>
    /\ NoTheory

\* one call of _get_applicable_rule on the node of the premise
LookUpRule ==
    /\ pc = "table"
    /\ LET r == ScanRule(NotAsked, <<>>)
       IN  applicable_rules' =
              IF r.rule = <<>>
              THEN <<>>
              ELSE <<[node |-> ScanNodeId, rule |-> r.rule[1]]>>
    /\ pc' = "tabled"
    /\ UNCHANGED <<fixed, oracle, nodes, branches, open_branches,
                   closed_branches, iteration, selected_branch, scan_i,
                   result, oracle_calls, oracle_raised, last_oracle,
                   constant_counter, rule_applications, chosen_constants>>

NextTable == LookUpRule

SpecTable == InitTable /\ [][NextTable]_vars

-----------------------------------------------------------------------------
(* ACrQModel as a function of the valuation it is built from *)

\* ACrQModel(valuations=..., constants=...)
ACrQModel(valuations) ==
    [valuations |-> valuations,
     bilateral_valuations |-> bilateral_valuations_of(valuations)]

\* the atoms of the valuations: a propositional atom, both sides of P(a),
\* one side of Q(a) and of Q(b), and a name with two stars
ModelAtoms ==
    {Str(PropositionalAtom("P")),
     Str(PredicateFormula("P", 0, <<"a">>)),
     Str(PredicateFormula("P", 1, <<"a">>)),
     Str(PredicateFormula("P", 2, <<"a">>)),
     Str(PredicateFormula("Q", 0, <<"a">>)),
     Str(PredicateFormula("Q", 1, <<"b">>))}

\* the valuations: a truth value for each atom of a set of atoms
ModelValuationInputs ==
    UNION {{ {[atom |-> k, value |-> f[k]] : k \in S} : f \in [S -> TruthValues]} :
             S \in SUBSET ModelAtoms}

InitModel ==
    /\ initial_formulas = <<>>
    /\ llm_evaluator = FALSE
    /\ oracle = NoAnswers
    /\ nodes = <<>>
    /\ branches = <<>>
    /\ open_branches = <<>>
    /\ closed_branches = <<>>
    /\ pc = "model"
    /\ iteration = 0
    /\ selected_branch = 0
    /\ scan_i = 0
    /\ applicable_rules = <<>>
    /\ \E valuations \in ModelValuationInputs :
          result = <<[valuations |-> valuations]>>
    /\ oracle_calls = NoCalls
    /\ oracle_raised = {}
    /\ last_oracle = "none"
    /\ constant_counter = 0
    /\ max_branching_factor = default_max_branching_factor
    /\ rule_applications = 0
    /\ chosen_constants = <<>>
    /\ first_run = <<>>
    /\ NoTheory

\* the dataclass is built and __post_init__ runs
PostInit ==
    /\ pc = "model"
    /\ result' = <<ACrQModel(result[1].valuations)>>
    /\ pc' = "modelled"
    /\ UNCHANGED <<fixed, oracle, nodes, branches, open_branches,
                   closed_branches, iteration, selected_branch, scan_i,
                   applicable_rules, oracle_calls, oracle_raised, last_oracle,
                   constant_counter, rule_applications, chosen_constants>>

NextModel == PostInit

SpecModel == InitModel /\ [][NextModel]_vars

-----------------------------------------------------------------------------
(* TheoryManager: statements, assertion, retraction, forward chaining *)

\* None
None == [none |-> TRUE]

\* the text of a formula: the formula parse_acrq_formula reads from it, and
\* how it is spelled ("plain" is the spelling f"{name}({constant})" gives)
Text(phi, spelling) == [formula |-> phi, spelling |-> spelling]

\* a stored formula that starts with "//"
Comment(why) == [comment |-> why]

\* a text parse_acrq_formula raises on
Garbled == [garbled |-> TRUE]

\* a sentence that is no formula; `translation` is what
\* NaturalLanguageTranslator.translate returns for it: a text, or None
Sentence(translation) == [sentence |-> TRUE, translation |-> translation]

\* formula.startswith("//")
is_comment(text) == "comment" \in DOMAIN text

\* parse_acrq_formula(text, SyntaxMode.MIXED) returns
parses(text) == "formula" \in DOMAIN text

parse_acrq_formula(text) == text.formula

\* f"{prefix}{n:04d}"
StatementId(prefix, n) == [prefix |-> prefix, n |-> n]

Statement(id, formula, sign, is_inferred, source) ==
    [id |-> id, formula |-> formula, sign |-> sign,
     is_inferred |-> is_inferred, source |-> source]

valid_signs == <<"t", "f", "e", "m", "n", "v">>

\* "self.statements[stmt.id] = stmt": a dict keeps insertion order, and an
\* existing key keeps its place
put(stmts, stmt) ==
    IF \E i \in 1..Len(stmts) : stmts[i].id = stmt.id
    THEN [i \in 1..Len(stmts) |->
            IF stmts[i].id = stmt.id THEN stmt ELSE stmts[i]]
    ELSE Append(stmts, stmt)

\* an assert_statement that stores what it was given or what the translator
\* made of it, parseable or not
stored_formula_raw(formula, natural_language) ==
    IF formula # None THEN formula
    ELSE IF parses(natural_language) THEN natural_language
    ELSE natural_language.translation

\* the formula assert_statement stores for its arguments
stored_formula(formula, natural_language) ==
    LET chosen ==
            IF formula # None THEN formula
            ELSE IF parses(natural_language) THEN natural_language
            ELSE IF natural_language.translation # None
            THEN natural_language.translation
            ELSE Comment("untranslated")
    IN  IF is_comment(chosen) \/ parses(chosen)
        THEN chosen
        ELSE Comment("PARSE ERROR")

\* the theory a call starts from
theory_before == [statements |-> statements, next_id |-> next_id]

\* an assert_statement that takes the next id before it looks at the sign
AssertStatement_id_first(natural_language, formula, sign) ==
    /\ pc = "theory"
    /\ next_id <= MaxAssert
    /\ next_id' = next_id + 1
    /\ IF sign \notin SeqToSet(valid_signs)
       THEN /\ last_call' = <<[op |-> "assert_statement",
                               raised |-> "ValueError", sign |-> sign,
                               before |-> theory_before]>>
            /\ UNCHANGED statements
       ELSE LET stmt == Statement(StatementId("S", next_id),
                                  stored_formula(formula, natural_language),
                                  sign, FALSE, "user_assertion")
            IN  /\ statements' = put(statements, stmt)
                /\ last_call' = <<[op |-> "assert_statement", raised |-> "",
                                   sign |-> sign, returned |-> stmt.id,
                                   before |-> theory_before]>>

\* assert_statement(natural_language, formula, sign)
AssertStatement(natural_language, formula, sign) ==
    /\ pc = "theory"
    /\ next_id <= MaxAssert
    /\ IF sign \notin SeqToSet(valid_signs)
       THEN /\ last_call' = <<[op |-> "assert_statement",
                               raised |-> "ValueError", sign |-> sign,
                               before |-> theory_before]>>
            /\ UNCHANGED <<statements, next_id>>
       ELSE LET stmt == Statement(StatementId("S", next_id),
                                  stored_formula(formula, natural_language),
                                  sign, FALSE, "user_assertion")
            IN  /\ statements' = put(statements, stmt)
                /\ next_id' = next_id + 1
                /\ last_call' = <<[op |-> "assert_statement", raised |-> "",
                                   sign |-> sign, returned |-> stmt.id,
                                   before |-> theory_before]>>

\* a retract_statement that gives the number of the retracted statement
\* back
RetractStatement_release(stmt_id) ==
    /\ pc = "theory"
    /\ statements' = SelectSeq(statements, LAMBDA x : x.id # stmt_id)
    /\ next_id' = IF statements' = statements THEN next_id ELSE next_id - 1
    /\ last_call' = <<[op |-> "retract_statement", raised |-> "",
                       stmt_id |-> stmt_id,
                       returned |-> statements' # statements,
                       before |-> theory_before]>>

\* retract_statement(stmt_id)
RetractStatement(stmt_id) ==
    /\ pc = "theory"
    /\ statements' = SelectSeq(statements, LAMBDA x : x.id # stmt_id)
    /\ next_id' = next_id
    /\ last_call' = <<[op |-> "retract_statement", raised |-> "",
                       stmt_id |-> stmt_id,
                       returned |-> \E i \in 1..Len(statements) :
                                       statements[i].id = stmt_id,
                       before |-> theory_before]>>

\* the statements whose formula the reasoning reads: not a comment, and
\* parse_acrq_formula does not raise
usable(stmt) == ~is_comment(stmt.formula) /\ parses(stmt.formula)

\* formula.predicate_name
predicate_name(phi) == Str(phi).name

\* _is_ground_atomic
is_ground_atomic(phi) ==
    /\ phi.kind \in {"Predicate", "Bilateral"}
    /\ \A i \in 1..Len(phi.terms) : phi.terms[i] \notin Variables

\* _get_predicate_name: <<>> for None
get_predicate_name(phi) ==
    IF phi.kind \in {"Predicate", "Bilateral"}
    THEN <<predicate_name(phi)>>
    ELSE <<>>

\* step 1: universal_rules, the t-signed restricted universals in statement
\* order
universal_rules(stmts) ==
    SelectSeq(stmts, LAMBDA x :
        /\ usable(x)
        /\ x.sign = "t"
        /\ parse_acrq_formula(x.formula).kind = "Universal")

\* step 1: ground_facts, as pairs of predicate name and constant, from the
\* t-signed ground atoms with one constant
ground_facts(stmts) ==
    {[pred |-> predicate_name(parse_acrq_formula(stmts[i].formula)),
      const |-> parse_acrq_formula(stmts[i].formula).terms[1]] :
        i \in {j \in 1..Len(stmts) :
                /\ usable(stmts[j])
                /\ stmts[j].sign = "t"
                /\ is_ground_atomic(parse_acrq_formula(stmts[j].formula))
                /\ Len(parse_acrq_formula(stmts[j].formula).terms) = 1}}

\* a universal that reads every constant as satisfying its restriction
instantiate_all(rule, chained, order, k) ==
    IF get_predicate_name(parse_acrq_formula(rule.formula).matrix) = <<>>
    THEN chained
    ELSE LET matrix_pred ==
                 get_predicate_name(parse_acrq_formula(rule.formula).matrix)[1]
             missing == {i \in 1..Len(order) :
                          [pred |-> matrix_pred, const |-> order[i]]
                              \notin chained.facts}
         IN  [facts |-> chained.facts
                          \cup {[pred |-> matrix_pred, const |-> order[i]] :
                                  i \in missing},
              new |-> chained.new
                        \o [n \in 1..Cardinality(missing) |->
                             [pred |-> matrix_pred,
                              const |-> order[CHOOSE i \in missing :
                                  Cardinality({j \in missing : j <= i}) = n],
                              from_rule |-> rule.id]]]

\* step 2, the body of "for rule_id, universal in universal_rules" from the
\* k-th constant on: `order` is the order in which the sets of constants
\* iterate
RECURSIVE instantiate(_, _, _, _)
instantiate(rule, chained, order, k) ==
    LET universal == parse_acrq_formula(rule.formula)
        restrictor == get_predicate_name(universal.restriction)
        matrix == get_predicate_name(universal.matrix)
    IN  IF restrictor = <<>> \/ matrix = <<>> \/ k > Len(order)
        THEN chained
        ELSE LET const == order[k]
                 derived == [pred |-> matrix[1], const |-> const]
             IN  IF /\ [pred |-> restrictor[1], const |-> const] \in chained.facts
                    /\ derived \notin chained.facts
                 THEN instantiate(rule,
                         [facts |-> chained.facts \cup {derived},
                          new |-> Append(chained.new,
                                    [pred |-> matrix[1], const |-> const,
                                     from_rule |-> rule.id])],
                         order, k + 1)
                 ELSE instantiate(rule, chained, order, k + 1)

\* one pass of the while loop over universal_rules
RECURSIVE chain_pass(_, _, _, _)
chain_pass(rules, i, chained, order) ==
    IF i > Len(rules)
    THEN chained
    ELSE chain_pass(rules, i + 1, instantiate(rules[i], chained, order, 1),
                    order)

\* "while changed and iteration < max_iterations"
RECURSIVE forward_chain(_, _, _, _)
forward_chain(rules, chained, order, passes) ==
    IF passes >= max_chain_iterations
    THEN chained
    ELSE LET after == chain_pass(rules, 1, chained, order)
         IN  IF after = chained
             THEN chained
             ELSE forward_chain(rules, after, order, passes + 1)

\* steps 1 and 2: new_inferences
new_inferences(stmts, order) ==
    forward_chain(universal_rules(stmts),
                  [facts |-> ground_facts(stmts), new |-> <<>>], order, 0).new

\* f"{pred_name}({const_name})"
formula_str(pred_name, const_name) ==
    Text(PredicateFormula(pred_name.base, pred_name.stars, <<const_name>>),
         "plain")

\* _formula_exists
formula_exists(stmts, text) ==
    \E i \in 1..Len(stmts) : stmts[i].formula = text

\* step 3: a Statement per new inference whose text no statement has yet
RECURSIVE add_inferences(_, _, _)
add_inferences(manager, new, k) ==
    IF k > Len(new)
    THEN manager
    ELSE LET text == formula_str(new[k].pred, new[k].const)
             stmt == Statement(StatementId("I", manager.next_id), text, "t",
                               TRUE, "forward_chaining")
         IN  IF formula_exists(manager.statements, text)
             THEN add_inferences(manager, new, k + 1)
             ELSE add_inferences(
                     [statements |-> put(manager.statements, stmt),
                      next_id |-> manager.next_id + 1,
                      inferred |-> Append(manager.inferred, stmt)],
                     new, k + 1)

\* what the oracle of a TheoryManager does for one atom: a bilateral value,
\* None, or an exception
Verdicts ==
    {Returned("TRUE", "FALSE"), Returned("FALSE", "TRUE"),
     Returned("TRUE", "TRUE"), Returned("FALSE", "FALSE"),
     Returned("UNDEFINED", "FALSE"), Returned("TRUE", "UNDEFINED"), None,
     Raises}

\* a verification that stores the verdict under the inferred atom whatever
\* the verdict says
evidence_as_inferred(pred_name, const_name, verdict) ==
    IF verdict = None \/ verdict = Raises
    THEN <<>>
    ELSE <<(<<formula_str(pred_name, const_name), "t">>)>>

\* the statements one verdict adds, as <<formula text, sign>> pairs
evidence(pred_name, const_name, verdict) ==
    LET plain == formula_str(pred_name, const_name)
        star == formula_str([pred_name EXCEPT !.stars = @ + 1], const_name)
    IN  IF verdict = None \/ verdict = Raises
        THEN <<>>
        ELSE IF verdict.positive = "TRUE" /\ verdict.negative = "FALSE"
        THEN <<(<<plain, "t">>)>>
        ELSE IF verdict.positive = "FALSE" /\ verdict.negative = "TRUE"
        THEN <<(<<star, "t">>)>>
        ELSE IF verdict.positive = "TRUE" /\ verdict.negative = "TRUE"
        THEN <<(<<plain, "t">>), (<<star, "t">>)>>
        ELSE IF verdict.positive = "FALSE" /\ verdict.negative = "FALSE"
        THEN <<(<<plain, "v">>)>>
        ELSE <<>>

RECURSIVE add_evidence(_, _, _)
add_evidence(manager, pairs, k) ==
    IF k > Len(pairs)
    THEN manager
    ELSE LET stmt == Statement(StatementId("E", manager.next_id),
                               pairs[k][1], pairs[k][2], TRUE,
                               "llm_verification")
         IN  add_evidence([statements |-> put(manager.statements, stmt),
                           next_id |-> manager.next_id + 1,
                           inferred |-> Append(manager.inferred, stmt)],
                          pairs, k + 1)

\* _verify_inferences_with_llm: verdicts[k] is the oracle's behaviour for
\* the k-th new inference
RECURSIVE verify_inferences_with_llm(_, _, _, _)
verify_inferences_with_llm(manager, new, verdicts, k) ==
    IF k > Len(new)
    THEN manager
    ELSE verify_inferences_with_llm(
            add_evidence(manager,
                         evidence(new[k].pred, new[k].const, verdicts[k]), 1),
            new, verdicts, k + 1)

\* infer_consequences()
infer_consequences(has_evaluator, order, verdicts) ==
    LET new == new_inferences(statements, order)
        chained == add_inferences([statements |-> statements,
                                   next_id |-> next_id, inferred |-> <<>>],
                                  new, 1)
    IN  IF has_evaluator
        THEN verify_inferences_with_llm(chained, new, verdicts, 1)
        ELSE chained

\* the constants of the theories of the model
TheoryConstants == {"a", "b"}

InferConsequences ==
    /\ pc = "theory"
    /\ \E order \in Orders(TheoryConstants) :
        \E verdicts \in
              [1..Len(new_inferences(statements, order)) ->
                  IF llm_evaluator THEN Verdicts ELSE {None}] :
            LET after == infer_consequences(llm_evaluator, order, verdicts)
            IN  /\ after.next_id <= MaxIds + 1
                /\ statements' = after.statements
                /\ next_id' = after.next_id
                /\ last_call' =
                      <<[op |-> "infer_consequences", raised |-> "",
                         returned |-> after.inferred,
                         new_inferences |-> new_inferences(statements, order),
                         has_evaluator |-> llm_evaluator,
                         verdicts |-> verdicts,
                         before |-> theory_before]>>

AllQR == RestrictedUniversalFormula("X", Qx("X"), Rx("X"))

\* the formula texts handed to assert_statement
TheoryTexts ==
    {Text(Px("a"), "plain"), Text(Px("b"), "spaced"), Text(Qx("a"), "plain"),
     Text(AllPQ, "plain"), Text(AllQR, "plain")}

\* the sentences handed to assert_statement without a formula
TheorySentences ==
    {Sentence(None), Sentence(Garbled)}

\* the signs handed to assert_statement; "x" is no sign
AssertSigns == {"t", "f", "x"}

InitTheory ==
    /\ initial_formulas = <<>>
    /\ llm_evaluator \in BOOLEAN
    /\ oracle = NoAnswers
    /\ max_branching_factor = default_max_branching_factor
    /\ first_run = <<>>
    /\ nodes = <<>>
    /\ branches = <<>>
    /\ open_branches = <<>>
    /\ closed_branches = <<>>
    /\ pc = "theory"
    /\ iteration = 0
    /\ selected_branch = 0
    /\ scan_i = 0
    /\ applicable_rules = <<>>
    /\ result = <<>>
    /\ oracle_calls = NoCalls
    /\ oracle_raised = {}
    /\ last_oracle = "none"
    /\ constant_counter = 0
    /\ rule_applications = 0
    /\ chosen_constants = <<>>
    /\ NoTheory

\* what no TheoryManager call of the model changes
tableau == <<initial_formulas, llm_evaluator, oracle, nodes, branches,
             open_branches, closed_branches, pc, iteration, selected_branch,
             scan_i, applicable_rules, result, oracle_calls, oracle_raised,
             last_oracle, constant_counter, max_branching_factor,
             rule_applications, chosen_constants, first_run>>

AssertCall ==
    /\ \E sign \in AssertSigns :
          \/ \E formula \in TheoryTexts :
                AssertStatement(Sentence(None), formula, sign)
          \/ \E natural_language \in TheorySentences :
                AssertStatement(natural_language, None, sign)
    /\ UNCHANGED <<tableau, theory_file>>

RetractCall ==
    /\ \E i \in 1..Len(statements) : RetractStatement(statements[i].id)
    /\ UNCHANGED <<tableau, theory_file>>

InferCall ==
    /\ InferConsequences
    /\ UNCHANGED <<tableau, theory_file>>

NextTheory ==
    \/ AssertCall
    \/ InferCall

SpecTheory == InitTheory /\ [][NextTheory]_vars

NextRetract ==
    \/ AssertCall
    \/ RetractCall
    \/ InferCall

SpecRetract == InitTheory /\ [][NextRetract]_vars

-----------------------------------------------------------------------------
(* TheoryManager.check_satisfiability: the theory handed to an ACrQTableau *)

\* sign_map.get(stmt.sign, t)
sign_obj(sign) == IF sign \in {"t", "f", "e"} THEN sign ELSE "t"

\* the signed formulas check_satisfiability collects, in statement order
check_formulas(stmts) ==
    LET parsed == SelectSeq(stmts, usable)
    IN  [i \in 1..Len(parsed) |->
            SignedFormula(sign_obj(parsed[i].sign),
                          parse_acrq_formula(parsed[i].formula))]

\* str(formula) of an atom, as a formula text
text_of(phi) ==
    Text(PredicateFormula(Str(phi).name.base, Str(phi).name.stars, phi.terms),
         "plain")

\* llm_formulas of _store_llm_evidence_from_tableau: the texts of the
\* negative bilateral atoms among the first k nodes that no statement has,
\* each once, in node order
RECURSIVE llm_formulas(_, _, _)
llm_formulas(stmts, ns, k) ==
    IF k = 0
    THEN <<>>
    ELSE LET found == llm_formulas(stmts, ns, k - 1)
             phi == ns[k].formula
         IN  IF /\ phi.kind = "Bilateral"
                /\ phi.neg
                /\ ~formula_exists(stmts, text_of(phi))
                /\ text_of(phi) \notin SeqToSet(found)
             THEN Append(found, text_of(phi))
             ELSE found

\* the second loop of _store_llm_evidence_from_tableau
RECURSIVE store_llm_evidence(_, _, _)
store_llm_evidence(manager, texts, k) ==
    IF k > Len(texts)
    THEN manager
    ELSE LET stmt == Statement(StatementId("E", manager.next_id), texts[k],
                               "t", TRUE, "llm_evaluation")
         IN  store_llm_evidence([statements |-> put(manager.statements, stmt),
                                 next_id |-> manager.next_id + 1],
                                texts, k + 1)

\* the variables of the tableau when no tableau is running
NoTableau ==
    /\ initial_formulas' = <<>>
    /\ oracle' = NoAnswers
    /\ nodes' = <<>>
    /\ branches' = <<>>
    /\ open_branches' = <<>>
    /\ closed_branches' = <<>>
    /\ pc' = "theory"
    /\ iteration' = 0
    /\ selected_branch' = 0
    /\ scan_i' = 0
    /\ applicable_rules' = <<>>
    /\ result' = <<>>
    /\ oracle_calls' = NoCalls
    /\ oracle_raised' = {}
    /\ last_oracle' = "none"
    /\ constant_counter' = 0
    /\ rule_applications' = 0
    /\ chosen_constants' = <<>>
    /\ UNCHANGED <<llm_evaluator, max_branching_factor, first_run>>

\* check_satisfiability() on a theory with no formula to collect:
\* "return True, []"
CheckEmpty ==
    /\ pc = "theory"
    /\ check_formulas(statements) = <<>>
    /\ last_call' = <<[op |-> "check_satisfiability", raised |-> "",
                       formulas |-> <<>>,
                       returned |-> [satisfiable |-> TRUE,
                                     info_states |-> <<>>],
                       before |-> theory_before]>>
    /\ UNCHANGED <<statements, next_id, tableau, theory_file>>

\* check_satisfiability() up to "tableau = ACrQTableau(formulas,
\* llm_evaluator=self.llm_evaluator)"; construct() runs next
CheckStart ==
    /\ pc = "theory"
    /\ check_formulas(statements) # <<>>
    /\ initial_formulas' = check_formulas(statements)
    /\ nodes' = InitialNodes(initial_formulas')
    /\ branches' = <<InitialBranch(initial_formulas', Len(initial_formulas'))>>
    /\ open_branches' = IF branches'[1].is_closed THEN <<>> ELSE <<1>>
    /\ closed_branches' = IF branches'[1].is_closed THEN <<1>> ELSE <<>>
    /\ pc' = "loop"
    /\ UNCHANGED <<llm_evaluator, max_branching_factor, first_run, theory,
                   oracle, iteration, selected_branch, scan_i,
                   applicable_rules, result, oracle_calls, oracle_raised,
                   last_oracle, constant_counter, rule_applications,
                   chosen_constants>>

\* check_satisfiability() after construct(): the evidence of the oracle is
\* stored when an oracle is installed, and result.satisfiable is returned.
\* The information states are part of the return value only and are left
\* out.  _store_llm_evidence_from_tableau reads tableau.nodes.values()
\* while ACrQTableau.apply_rule of acrq_tableau.py appends to self.nodes:
\* the container of the tableau class is defined outside the files at
\* hand, and if it is a list the read raises AttributeError, so with an
\* oracle the call may also end in that error.
CheckReturn ==
    /\ pc = "done"
    /\ LET texts == llm_formulas(statements, nodes, Len(nodes))
           after == IF llm_evaluator
                    THEN store_llm_evidence([statements |-> statements,
                                             next_id |-> next_id], texts, 1)
                    ELSE [statements |-> statements, next_id |-> next_id]
       IN  \/ /\ after.next_id <= MaxIds + 1
              /\ statements' = after.statements
              /\ next_id' = after.next_id
              /\ last_call' = <<[op |-> "check_satisfiability", raised |-> "",
                                 formulas |-> initial_formulas,
                                 returned |-> [satisfiable |->
                                                  result[1].satisfiable],
                                 before |-> theory_before]>>
           \/ /\ llm_evaluator
              /\ UNCHANGED <<statements, next_id>>
              /\ last_call' = <<[op |-> "check_satisfiability",
                                 raised |-> "AttributeError",
                                 formulas |-> initial_formulas,
                                 before |-> theory_before]>>
    /\ UNCHANGED theory_file
    /\ NoTableau

\* the formula texts and sentences of the theories that are checked
CheckTexts == {Text(Px("a"), "plain"), Text(AllPQ, "plain")}

CheckSigns == {"t", "n"}

\* the number of statements asserted into a theory that is checked
MaxChecked == 2

AssertChecked ==
    /\ next_id <= MaxChecked
    /\ \/ \E formula \in CheckTexts, sign \in CheckSigns :
             AssertStatement(Sentence(None), formula, sign)
       \/ \E natural_language \in TheorySentences :
             AssertStatement(natural_language, None, "t")
    /\ UNCHANGED <<tableau, theory_file>>

\* a check is started while the theory has issued few ids
CheckCall ==
    /\ next_id <= MaxChecked + 1
    /\ CheckStart

NextCheck ==
    \/ AssertChecked
    \/ RetractCall
    \/ InferCall
    \/ CheckEmpty
    \/ CheckCall
    \/ Next
    \/ CheckReturn

SpecCheck == InitTheory /\ [][NextCheck]_vars

-----------------------------------------------------------------------------
(* TheoryManager.save, load and clear *)

\* d.get(key, default)
dict_get(d, key, default) == IF key \in DOMAIN d THEN d[key] ELSE default

\* the dict save() writes for one statement; of the metadata the model has
\* the source
statement_data(s) ==
    [id |-> s.id, formula |-> s.formula, sign |-> s.sign,
     is_inferred |-> s.is_inferred, metadata |-> [source |-> s.source]]

\* a file format that does not record next_id
saved_data_unnumbered(stmts, n) ==
    [metadata |-> [version |-> "1.0"],
     statements |-> [i \in 1..Len(stmts) |-> statement_data(stmts[i])]]

\* the data save() dumps
saved_data(stmts, n) ==
    [metadata |-> [version |-> "1.0", next_id |-> n],
     statements |-> [i \in 1..Len(stmts) |-> statement_data(stmts[i])]]

\* the Statement load() builds from one entry of the file
loaded_statement(stmt_data) ==
    Statement(stmt_data.id,
              dict_get(stmt_data, "formula", None),
              dict_get(stmt_data, "sign", "t"),
              dict_get(stmt_data, "is_inferred", FALSE),
              dict_get(dict_get(stmt_data, "metadata", <<>>), "source", None))

\* the loop of load() over the first k entries
RECURSIVE loaded_statements(_, _)
loaded_statements(entries, k) ==
    IF k = 0
    THEN <<>>
    ELSE put(loaded_statements(entries, k - 1), loaded_statement(entries[k]))

\* save(): the file holds the dumped data; written_from is history, the
\* theory the file was written from
Save ==
    /\ pc = "theory"
    /\ theory_file' = <<[data |-> saved_data(statements, next_id),
                         written_from |-> theory_before]>>
    /\ last_call' = <<[op |-> "save", raised |-> "",
                       before |-> theory_before]>>
    /\ UNCHANGED <<statements, next_id>>

\* load(): open() raises when there is no file
Load ==
    /\ pc = "theory"
    /\ IF theory_file = <<>>
       THEN /\ last_call' = <<[op |-> "load", raised |-> "FileNotFoundError",
                               before |-> theory_before]>>
            /\ UNCHANGED <<statements, next_id>>
       ELSE LET data == theory_file[1].data
            IN  /\ next_id' = dict_get(data.metadata, "next_id", 1)
                /\ statements' =
                      loaded_statements(data.statements, Len(data.statements))
                /\ last_call' = <<[op |-> "load", raised |-> "",
                                   before |-> theory_before]>>
    /\ UNCHANGED theory_file

\* clear()
Clear ==
    /\ pc = "theory"
    /\ statements' = <<>>
    /\ next_id' = 1
    /\ last_call' = <<[op |-> "clear", raised |-> "",
                       before |-> theory_before]>>
    /\ UNCHANGED theory_file

SaveCall ==
    /\ Save
    /\ UNCHANGED tableau

LoadCall ==
    /\ Load
    /\ UNCHANGED tableau

ClearCall ==
    /\ Clear
    /\ UNCHANGED tableau

\* the statements asserted into a theory that is saved
AssertSaved ==
    /\ next_id <= MaxChecked
    /\ \/ \E formula \in CheckTexts :
             AssertStatement(Sentence(None), formula, "t")
       \/ AssertStatement(Sentence(None), None, "f")
    /\ UNCHANGED <<tableau, theory_file>>

NextSave ==
    \/ AssertSaved
    \/ InferCall
    \/ SaveCall
    \/ LoadCall
    \/ ClearCall

SpecSave == InitTheory /\ [][NextSave]_vars

-----------------------------------------------------------------------------
(* Claims *)

Done == pc = "done"

TheResult == result[1]

\* the input [t : p(a), t : p*(a)] for a bilateral predicate p, either order
GlutInput ==
    /\ Len(initial_formulas) = 2
    /\ \A i \in 1..2 :
          /\ initial_formulas[i].sign = "t"
          /\ initial_formulas[i].formula.kind = "Bilateral"
    /\ initial_formulas[1].formula = get_dual(initial_formulas[2].formula)

\* C1: under ACrQ with no oracle the glut input [t : p(a), t : p*(a)] never
\* closes its branch, and construct() returns satisfiable with an open branch
\* and no closed one.
C1_GlutSatisfiable ==
    (~llm_evaluator /\ GlutInput) =>
        /\ ~branches[1].is_closed
        /\ closed_branches = <<>>
        /\ Done => /\ TheResult.satisfiable
                   /\ TheResult.open_branches >= 1
                   /\ TheResult.closed_branches = 0

C1_Witness ==
    /\ Done
    /\ ~llm_evaluator
    /\ GlutInput
    /\ TheResult.satisfiable
    /\ Len(branches[1].nodes) = 2

\* some formula is on the branch under two distinct signs from {t, f, e}
ConflictOn(branch) ==
    \E x \in branch.formula_index, y \in branch.formula_index :
        /\ x.key = y.key
        /\ x.sign # y.sign
        /\ x.sign \in {"t", "f", "e"}
        /\ y.sign \in {"t", "f", "e"}

\* C2: after any sequence of insertions the branch is closed if and only if
\* some formula occurs on it under two distinct signs from {t, f, e}.
C2_ClosedIffConflict ==
    pc = "branch" => (branches[1].is_closed <=> ConflictOn(branches[1]))

\* C3: inserting a signed formula whose sign is m, n or v never closes the
\* branch, whatever is already on it.
C3_MetaSignsNeverClose ==
    [][(/\ pc = "branch"
        /\ Len(nodes') = Len(nodes) + 1
        /\ nodes'[Len(nodes')].sign \in {"m", "n", "v"})
       => ~branches'[1].is_closed]_vars

\* C4: over a run of construct() the oracle is invoked at most once for any
\* atomic formula on any branch, scan invocations included.
C4_OracleAtMostOnce ==
    \A x \in DOMAIN oracle_calls : oracle_calls[x] <= 1

\* the oracle returned, for the atom of some input formula, a positive
\* component that contradicts the input's sign
OracleContradictsInput ==
    \E i \in 1..Len(initial_formulas) :
        LET sf == initial_formulas[i]
            answer == oracle[Str(sf.formula)]
        IN  /\ answer \in BilateralTruthValues
            /\ \/ sf.sign = "t" /\ answer.positive = "FALSE"
               \/ sf.sign = "f" /\ answer.positive = "TRUE"

\* C5: when the oracle's positive component for an input atom contradicts
\* the sign the input gives it, the branch is closed and construct() returns
\* unsatisfiable.
C5_OracleContradictionCloses ==
    (Done /\ llm_evaluator /\ OracleContradictsInput) =>
        /\ branches[1].is_closed
        /\ ~TheResult.satisfiable
        /\ TheResult.open_branches = 0

C5_Witness ==
    /\ Done
    /\ llm_evaluator
    /\ OracleContradictsInput
    /\ ~TheResult.satisfiable
    /\ Len(initial_formulas) = 1
    /\ Len(nodes) = 2

QAtom == PredicateFormula("Q", 0, <<"a">>)

\* the mock of the tests: `value` for Q(a), the gap for every other atom
MockOracle(value) ==
    /\ oracle[Str(QAtom)] = value
    /\ \A k \in Strs :
          k # Str(QAtom) => oracle[k] \in {NotAsked, Returned("FALSE", "FALSE")}

\* C6: input [t : Q(a)] with an oracle answering <TRUE, FALSE> for Q(a) and
\* the gap for any other atom is satisfiable, with a model in which
\* Q(a) = TRUE and Q*(a) = FALSE.
C6_VerifiedAtomSatisfiable ==
    (/\ Done
     /\ llm_evaluator
     /\ initial_formulas = <<SignedFormula("t", QAtom)>>
     /\ MockOracle(Returned("TRUE", "FALSE"))) =>
        /\ TheResult.satisfiable
        /\ \E i \in 1..Len(TheResult.models) :
              /\ [atom |-> Str(QAtom), value |-> "TRUE"]
                    \in TheResult.models[i].valuations
              /\ [key |-> Str(QAtom), positive |-> "TRUE", negative |-> "FALSE"]
                    \in TheResult.models[i].bilateral_valuations

\* C7: input [t : Q(a)] with an oracle answering the glut <TRUE, TRUE> for
\* Q(a) and the gap for any other atom is satisfiable: the branch is open
\* when construct() returns.
C7_OracleGlutSatisfiable ==
    (/\ Done
     /\ llm_evaluator
     /\ initial_formulas = <<SignedFormula("t", QAtom)>>
     /\ MockOracle(Returned("TRUE", "TRUE"))) =>
        /\ TheResult.satisfiable
        /\ ~branches[1].is_closed

\* C8: a step in which the oracle raises adds no node, leaves the branches
\* (closure state, formula index, evaluated atoms) and the branch pools as
\* they were and goes on with the scan; no exception leaves construct(),
\* which never stops short of returning a result.
C8_OracleFailureIsLocal ==
    /\ [][last_oracle' = "raised" =>
            /\ nodes' = nodes
            /\ branches' = branches
            /\ open_branches' = open_branches
            /\ closed_branches' = closed_branches
            /\ \A x \in oracle_raised' \ oracle_raised :
                  x[2] \notin branches'[x[1]].llm_evaluated
            /\ pc' = "scan"]_vars
    /\ [](pc # "exception")
    /\ [](Done => result # <<>>)
    /\ [](Done \/ ENABLED Next)

C8_Witness ==
    /\ Done
    /\ oracle_raised # {}
    /\ result # <<>>
    /\ Len(nodes) > Len(initial_formulas)

\* C9: once the oracle has raised for an atomic formula on a branch, it is
\* not invoked again for that formula on that branch.
C9_NoRetryAfterFailure ==
    [][\A x \in oracle_raised : oracle_calls'[x] = oracle_calls[x]]_vars

\* the dual of an atom: the same predicate and arguments, other polarity
DualStr(key) ==
    IF key.name.stars > 0
    THEN [key EXCEPT !.name.stars = @ - 1]
    ELSE [key EXCEPT !.name.stars = @ + 1]

ExpectedConclusions(phi, value) ==
    LET first == <<[sign |-> SignsFor(value.positive)[1], key |-> Str(phi)]>>
        second == <<[sign |-> SignsFor(value.negative)[1],
                     key |-> DualStr(Str(phi))]>>
    IN  IF phi.kind \in {"Predicate", "Bilateral"}
        THEN first \o second
        ELSE first

\* C10: the oracle rule for an atom and a value <pos, neg> is non-branching
\* with one conclusion list: the atom signed t, f or e by pos and, for a
\* predicate or bilateral atom, its dual signed t, f or e by neg; nothing
\* else.
C10_OracleRuleShape ==
    pc = "built" =>
        /\ Len(applicable_rules) = 1
        /\ LET rule == applicable_rules[1].rule
               phi == initial_formulas[1].formula
               cs == rule.conclusions[1]
           IN  /\ rule.rule_type = "ALPHA"
               /\ Len(rule.conclusions) = 1
               /\ [i \in 1..Len(cs) |->
                     [sign |-> cs[i].sign, key |-> Str(cs[i].formula)]]
                  = ExpectedConclusions(phi, oracle[Str(phi)])

StoppedByCap ==
    /\ \/ iteration >= max_iterations
       \/ Len(branches) >= max_branching_factor
    /\ open_branches # <<>>
    /\ ~is_complete

\* C13: the verdict of the result is "satisfiable" exactly when an open
\* branch is left when the expansion stops, whether it stopped because the
\* tableau is complete or because a cap was hit.
C13_SatisfiableIffOpenBranch ==
    Done => (TheResult.satisfiable <=> open_branches # <<>>)

C13_Witness ==
    /\ Done
    /\ StoppedByCap
    /\ closed_branches # <<>>
    /\ TheResult.satisfiable

\* C14: a run that a cap stopped while a rule was still pending returns a
\* result whose flag incomplete is true.
C14_CappedRunFlagged ==
    (Done /\ StoppedByCap) =>
        /\ "incomplete" \in DOMAIN TheResult
        /\ TheResult.incomplete

FreshApplied ==
    /\ pc = "scan"
    /\ pc' = "loop"
    /\ best_rule.rule.fresh_calls = 1

InputConstants ==
    UNION {constants_of(initial_formulas[i].formula) :
             i \in 1..Len(initial_formulas)}

\* C16: the constant a fresh-constant rule introduces is not a constant of
\* the input, not one chosen earlier in the run, and not among the ground
\* terms of the branch it is introduced on.
C16_FreshConstantIsNew ==
    [][FreshApplied =>
         LET c == best_rule.rule.instantiation_constant
         IN  /\ c \notin InputConstants
             /\ c \notin SeqToSet(chosen_constants)
             /\ c \notin branches[selected_branch].ground_terms]_vars

\* the step that applies the rule of a t-signed restricted universal
UniversalApplied ==
    /\ pc = "scan"
    /\ pc' = "loop"
    /\ nodes[best_rule.node].sign = "t"
    /\ nodes[best_rule.node].formula.kind = "Universal"

\* the constants a branch has instantiated the universal of a node with
InstantiatedWith(branch, node_id) ==
    {u.constant : u \in {x \in branch.universal_instantiations :
        /\ x.sign = nodes[node_id].sign
        /\ x.key = FormulaKey(nodes[node_id].formula)}}

\* C17: a t-signed restricted universal is never instantiated with a
\* constant its branch has already instantiated it with, and when the
\* tableau is complete the universal of every open branch has been
\* instantiated with each ground term of the branch, once per constant.
C17_UniversalOncePerConstant ==
    /\ [][UniversalApplied =>
            best_rule.rule.instantiation_constant
                \notin InstantiatedWith(branches[selected_branch],
                                        best_rule.node)]_vars
    /\ [](Done /\ is_complete =>
            \A b \in SeqToSet(open_branches) :
                \A i \in 1..Len(branches[b].nodes) :
                    LET node_id == branches[b].nodes[i]
                    IN  (/\ nodes[node_id].sign = "t"
                         /\ nodes[node_id].formula.kind = "Universal") =>
                            InstantiatedWith(branches[b], node_id)
                                = branches[b].ground_terms)

C17_Witness ==
    /\ Done
    /\ is_complete
    /\ rule_applications >= 2
    /\ \E b \in SeqToSet(open_branches) :
          \E i \in 1..Len(branches[b].nodes) :
             /\ nodes[branches[b].nodes[i]].sign = "t"
             /\ nodes[branches[b].nodes[i]].formula.kind = "Universal"
             /\ Cardinality(InstantiatedWith(branches[b],
                                             branches[b].nodes[i])) >= 2

RECURSIVE quantifier_free(_)
quantifier_free(phi) ==
    IF phi.kind = "Compound"
    THEN \A i \in 1..Len(phi.subformulas) : quantifier_free(phi.subformulas[i])
    ELSE phi.kind \notin {"Universal", "Existential"}

\* the formula with every negated predicate read as its bilateral dual
RECURSIVE bilateral_form(_)
bilateral_form(phi) ==
    IF phi.kind # "Compound"
    THEN phi
    ELSE IF phi.op = "~" /\ phi.subformulas[1].kind \in {"Predicate", "Bilateral"}
    THEN acrq_dual(phi.subformulas[1])
    ELSE [phi EXCEPT !.subformulas =
            [i \in 1..Len(phi.subformulas) |-> bilateral_form(phi.subformulas[i])]]

\* the interpretation of the model extracted from a branch
interpretation_of(branch) ==
    [k \in Strs |-> Lookup(extract_model(branch).valuations, k, "FALSE")]

TableConclusions ==
    IF applicable_rules = <<>> THEN <<>> ELSE applicable_rules[1].rule.conclusions

\* the assignments of truth values to the atoms of the table's premises
Assignments == [{Str(P), Str(Q)} -> TruthValues]

\* C19: for every rule of the table and every assignment of TRUE, FALSE,
\* UNDEFINED to the atoms under which the premise holds under its sign, some
\* conclusion branch has all of its signed formulas hold.
C19_RuleSoundness ==
    (pc = "tabled" /\ applicable_rules # <<>>) =>
        \A interpretation \in Assignments :
            holds(initial_formulas[1], interpretation) =>
                \E i \in 1..Len(TableConclusions) :
                    \A j \in 1..Len(TableConclusions[i]) :
                        holds(TableConclusions[i][j], interpretation)

\* the premise is sign : (phi op psi)
PremiseIs(sign, op) ==
    /\ initial_formulas[1].sign = sign
    /\ initial_formulas[1].formula.kind = "Compound"
    /\ initial_formulas[1].formula.op = op

SingleConclusion(sign) ==
    TableConclusions =
        <<(<<SignedFormula(sign, initial_formulas[1].formula.subformulas[1])>>)>>

Solved(input) ==
    /\ Done
    /\ initial_formulas = input
    /\ ~llm_evaluator
    /\ max_branching_factor = default_max_branching_factor

\* the valuations of the models of the result
ModelValuations == {TheResult.models[i].valuations : i \in 1..Len(TheResult.models)}

Valuation(phi, value) == [atom |-> Str(phi), value |-> value]

\* C22: solve([f : (P | ~P), e : (P | ~P)]) is satisfiable and has one
\* model, in which P is UNDEFINED (so valid(P | ~P) is false).
C22_ExcludedMiddleNotValid ==
    Solved(validity_check(Or(P, Not(P)))) =>
        /\ TheResult.satisfiable
        /\ open_branches # <<>>
        /\ ModelValuations = {{Valuation(P, "UNDEFINED")}}

C25_SyllogismEntailed ==
    Solved(Syllogism) =>
        /\ open_branches = <<>>
        /\ ~TheResult.satisfiable

C25_Witness ==
    /\ Solved(Syllogism)
    /\ Len(closed_branches) >= 2
    /\ "a" \in SeqToSet(chosen_constants)
    /\ TheResult.open_branches = 0

\* the last call of the TheoryManager was `op`
Called(op) == last_call # <<>> /\ last_call[1].op = op

\* C26: assert_statement with a sign outside t, f, e, m, n, v raises
\* ValueError and leaves the theory as it was: no statement is added and
\* next_id is not advanced; with one of the six signs it does not raise.
C26_InvalidSignRejected ==
    Called("assert_statement") =>
        IF last_call[1].sign \in {"t", "f", "e", "m", "n", "v"}
        THEN last_call[1].raised = ""
        ELSE /\ last_call[1].raised = "ValueError"
             /\ statements = last_call[1].before.statements
             /\ next_id = last_call[1].before.next_id

C26_Witness ==
    /\ Called("assert_statement")
    /\ last_call[1].raised = "ValueError"
    /\ Len(statements) >= 2

\* the statements of `stmts` that are t-signed and whose formula is `phi`
TrueStatements(stmts, phi) ==
    {i \in 1..Len(stmts) :
        /\ stmts[i].sign = "t"
        /\ "formula" \in DOMAIN stmts[i].formula
        /\ stmts[i].formula.formula = phi}

\* the k-th derivation of the last infer_consequences rests on a t-signed
\* restricted universal of the theory and on a t-signed ground fact: one
\* asserted before the call, or one derived earlier in the call
Justified(k) ==
    LET new == last_call[1].new_inferences
        before == last_call[1].before.statements
    IN  \E i \in 1..Len(before) :
            /\ before[i].id = new[k].from_rule
            /\ before[i].sign = "t"
            /\ "formula" \in DOMAIN before[i].formula
            /\ before[i].formula.formula.kind = "Universal"
            /\ before[i].formula.formula.matrix.kind = "Predicate"
            /\ before[i].formula.formula.restriction.kind = "Predicate"
            /\ Str(before[i].formula.formula.matrix).name = new[k].pred
            /\ LET restriction == before[i].formula.formula.restriction
                   instance == [restriction EXCEPT !.terms = <<new[k].const>>]
               IN  \/ TrueStatements(before, instance) # {}
                   \/ \E j \in 1..(k - 1) :
                         /\ new[j].pred = Str(restriction).name
                         /\ new[j].const = new[k].const

\* C27: infer_consequences derives Q(c) from [forall X P(X)]Q(X) only when
\* the universal is a t-signed statement and P(c) is a t-signed ground fact,
\* asserted or derived earlier in the same run; every statement it adds by
\* forward chaining is t : Q(c) for such a derivation.
C27_RestrictionGuardsInference ==
    Called("infer_consequences") =>
        /\ \A k \in 1..Len(last_call[1].new_inferences) : Justified(k)
        /\ \A n \in 1..Len(last_call[1].returned) :
              last_call[1].returned[n].source = "forward_chaining" =>
                  /\ last_call[1].returned[n].sign = "t"
                  /\ \E k \in 1..Len(last_call[1].new_inferences) :
                        last_call[1].returned[n].formula =
                            formula_str(last_call[1].new_inferences[k].pred,
                                        last_call[1].new_inferences[k].const)

\* R(a) is derived from Q(a), which the same call derived from P(a)
C27_Witness ==
    /\ Called("infer_consequences")
    /\ Len(last_call[1].returned) >= 2
    /\ \E k \in 1..Len(last_call[1].new_inferences) :
          /\ last_call[1].new_inferences[k].const = "a"
          /\ last_call[1].new_inferences[k].pred = Str(Rx("a")).name
          /\ TrueStatements(last_call[1].before.statements, Qx("a")) = {}

\* the atomic formulas on a branch that the branch does not record as
\* evaluated by the oracle
Unevaluated(b) ==
    {i \in 1..Len(branches[b].nodes) :
        /\ is_atomic(nodes[branches[b].nodes[i]].formula)
        /\ Str(nodes[branches[b].nodes[i]].formula)
              \notin branches[b].llm_evaluated}

\* C28: with an oracle that does not raise, a construct() that returns
\* without having stopped on the iteration cap or the branch cap leaves
\* every atomic formula of every open branch recorded as evaluated by the
\* oracle on that branch.
C28_ReturnsWithAtomsEvaluated ==
    (Done /\ llm_evaluator /\ oracle_raised = {} /\ ~StoppedByCap) =>
        \A b \in SeqToSet(open_branches) : Unevaluated(b) = {}

C28_Witness ==
    /\ Done
    /\ llm_evaluator
    /\ oracle_raised = {}
    /\ ~StoppedByCap
    /\ \E b \in SeqToSet(open_branches) :
          Cardinality(branches[b].llm_evaluated) >= 2

\* the applications of the oracle rule on a branch: each adds one LLM-Eval
\* node for the positive component, on the formula of its premise
OracleApplications(b) ==
    {i \in 1..Len(branches[b].nodes) :
        LET node == nodes[branches[b].nodes[i]]
        IN  /\ node.rule = "LLM-Eval"
            /\ Str(node.formula) = Str(nodes[node.parent].formula)}

\* on every branch the oracle rule has been applied at most once per atomic
\* formula
OncePerAtom ==
    \A b \in 1..Len(branches) :
        \A i, j \in OracleApplications(b) :
            Str(nodes[branches[b].nodes[i]].formula)
                = Str(nodes[branches[b].nodes[j]].formula) => i = j

\* C29: with an oracle that answers every atom, the oracle rule is applied
\* at most once per atomic formula per branch, and construct() returns with
\* the iteration cap not reached: unless the branch cap stopped it, no rule
\* is applicable on any open branch, the oracle rule included.
C29_OracleRuleRunsOut ==
    (llm_evaluator /\ oracle_raised = {}) =>
        /\ OncePerAtom
        /\ Done =>
              /\ iteration < max_iterations
              /\ Len(branches) < max_branching_factor => is_complete

C29_Witness ==
    /\ Done
    /\ llm_evaluator
    /\ oracle_raised = {}
    /\ Len(branches) < max_branching_factor
    /\ \E b \in SeqToSet(open_branches) :
          Cardinality(OracleApplications(b)) >= 2

\* the scan of the selected branch found a rule of the given kind
Found(is_oracle_rule, types) ==
    \E i \in 1..Len(applicable_rules) :
        /\ applicable_rules[i].rule.llm = is_oracle_rule
        /\ applicable_rules[i].rule.rule_type \in types

RECURSIVE Replay(_, _)
Replay(b, k) ==
    IF k = 0
    THEN NewBranch(b)
    ELSE add_formula(nodes, Replay(b, k - 1),
                     NodeSigned(branches[b].nodes[k]), branches[b].nodes[k])

\* the last node of the branch is the conclusion of a rule
ClosedByRule(b) ==
    /\ branches[b].is_closed
    /\ branches[b].nodes # <<>>
    /\ nodes[branches[b].nodes[Len(branches[b].nodes)]].rule # ""

\* C31: during construct() the open and the closed branches are disjoint,
\* every branch among the closed ones is closed, and a branch that a rule
\* has closed ends with the conclusion that closed it: no later conclusion
\* of that rule and no node of a later rule is on it.
C31_ClosedBranchesFrozen ==
    /\ SeqToSet(open_branches) \cap SeqToSet(closed_branches) = {}
    /\ \A b \in SeqToSet(closed_branches) : branches[b].is_closed
    /\ \A b \in 1..Len(branches) :
          ClosedByRule(b) =>
              ~Replay(b, Len(branches[b].nodes) - 1).is_closed

\* the oracle rule of a predicate atom has two conclusions; the first has
\* closed the branch and the second is not on it
C31_Witness ==
    /\ Done
    /\ \E b \in SeqToSet(closed_branches) :
          LET last == nodes[branches[b].nodes[Len(branches[b].nodes)]]
          IN  /\ ClosedByRule(b)
              /\ last.rule = "LLM-Eval"
              /\ last.formula.kind \in {"Predicate", "Bilateral"}
              /\ Str(last.formula) = Str(nodes[last.parent].formula)

\* the value a valuation gives an atom, FALSE when it gives none
ValueOrFalse(valuations, key) ==
    IF \E x \in valuations : x.atom = key
    THEN (CHOOSE x \in valuations : x.atom = key).value
    ELSE "FALSE"

\* the keys p(a) of a valuation: p a name without a star, a an argument
\* tuple, and p(a) or p*(a) an atom of the valuation
BilateralKeys(valuations) ==
    {k \in Strs :
        /\ k.name.stars = 0
        /\ k.terms # <<>>
        /\ \E x \in valuations :
              \/ x.atom = k
              \/ x.atom = [k EXCEPT !.name.stars = 1]}

\* C32: the bilateral_valuations of an ACrQModel hold, for each base name p
\* and argument tuple a with p(a) or p*(a) in the valuation, exactly one
\* entry keyed p(a): its positive component is the value of p(a), its
\* negative component the value of p*(a), a missing side being FALSE; no
\* entry is keyed by a propositional atom.
C32_BilateralValuations ==
    pc = "modelled" =>
        /\ \A k \in BilateralKeys(result[1].valuations) :
              {x \in result[1].bilateral_valuations : x.key = k}
                  = {[key |-> k,
                      positive |-> ValueOrFalse(result[1].valuations, k),
                      negative |-> ValueOrFalse(result[1].valuations,
                                       [k EXCEPT !.name.stars = 1])]}
        /\ \A x \in result[1].bilateral_valuations : x.key.terms # <<>>

\* a valuation with a propositional atom, both sides of P(a), and Q(b) with
\* its negative side only
C32_Witness ==
    /\ pc = "modelled"
    /\ Cardinality(BilateralKeys(result[1].valuations)) = 2
    /\ \E x \in result[1].valuations : x.atom.terms = <<>>
    /\ \E x \in result[1].bilateral_valuations :
          x.positive = "FALSE" /\ x.negative = "TRUE" /\ x.key.terms = <<"b">>
    /\ \E x \in result[1].bilateral_valuations :
          x.positive = "UNDEFINED" /\ x.negative = "TRUE"

\* the statements the claim gives one verdict on the atom pred(const), as
\* pairs of formula and sign
VerdictStatements(pred, const, verdict) ==
    LET atom == PredicateFormula(pred.base, pred.stars, <<const>>)
        starred == PredicateFormula(pred.base, pred.stars + 1, <<const>>)
    IN  IF verdict = Returned("TRUE", "FALSE")
        THEN <<[formula |-> atom, sign |-> "t"]>>
        ELSE IF verdict = Returned("FALSE", "TRUE")
        THEN <<[formula |-> starred, sign |-> "t"]>>
        ELSE IF verdict = Returned("TRUE", "TRUE")
        THEN <<[formula |-> atom, sign |-> "t"],
               [formula |-> starred, sign |-> "t"]>>
        ELSE IF verdict = Returned("FALSE", "FALSE")
        THEN <<[formula |-> atom, sign |-> "v"]>>
        ELSE <<>>

\* the statements the claim gives the verdicts on the first k new
\* inferences of the last call
RECURSIVE ExpectedEvidence(_)
ExpectedEvidence(k) ==
    IF k = 0
    THEN <<>>
    ELSE ExpectedEvidence(k - 1)
            \o VerdictStatements(last_call[1].new_inferences[k].pred,
                                 last_call[1].new_inferences[k].const,
                                 last_call[1].verdicts[k])

\* the statements the last call added by verification, in the order added
StoredEvidence ==
    SelectSeq(last_call[1].returned, LAMBDA x : x.source = "llm_verification")

\* C33: with an oracle installed, infer_consequences stores for each newly
\* inferred atom P(c), in order: t : P(c) for <TRUE, FALSE>; t : P*(c) for
\* <FALSE, TRUE>; both for <TRUE, TRUE>; v : P(c) for <FALSE, FALSE>;
\* nothing for a verdict with an UNDEFINED component, for None and for an
\* exception.  Each such statement has an E id and is_inferred set, and is
\* in the theory after the call.
C33_VerdictMapping ==
    (Called("infer_consequences") /\ last_call[1].has_evaluator) =>
        /\ Len(StoredEvidence)
              = Len(ExpectedEvidence(Len(last_call[1].new_inferences)))
        /\ \A n \in 1..Len(StoredEvidence) :
              LET expected ==
                      ExpectedEvidence(Len(last_call[1].new_inferences))[n]
              IN  /\ "formula" \in DOMAIN StoredEvidence[n].formula
                  /\ StoredEvidence[n].formula.formula = expected.formula
                  /\ StoredEvidence[n].sign = expected.sign
                  /\ StoredEvidence[n].id.prefix = "E"
                  /\ StoredEvidence[n].is_inferred
                  /\ \E i \in 1..Len(statements) :
                        statements[i] = StoredEvidence[n]

\* a call with a glut verdict, which stores two statements
C33_Witness ==
    /\ Called("infer_consequences")
    /\ last_call[1].has_evaluator
    /\ \E k \in 1..Len(last_call[1].verdicts) :
          last_call[1].verdicts[k] = Returned("TRUE", "TRUE")
    /\ Len(StoredEvidence) = 2

\* the statements that are not comments
NoComments(stmts) == SelectSeq(stmts, LAMBDA x : ~is_comment(x.formula))

\* C34: a statement that can neither be parsed nor translated is stored
\* with a comment as its formula and assert_statement raises nothing; the
\* comments make no difference to infer_consequences and
\* check_satisfiability, which see the theory as if the comments were not
\* in it; a theory with no formula to submit is reported satisfiable with
\* no information states.
C34_CommentsIgnored ==
    /\ \A i \in 1..Len(statements) :
          is_comment(statements[i].formula) \/ parses(statements[i].formula)
    /\ (Called("assert_statement")
          /\ last_call[1].sign \in SeqToSet(valid_signs)) =>
             last_call[1].raised = ""
    /\ Called("infer_consequences") =>
          \E order \in Orders(TheoryConstants) :
              last_call[1].new_inferences
                  = new_inferences(NoComments(last_call[1].before.statements),
                                   order)
    /\ Called("check_satisfiability") =>
          /\ last_call[1].formulas
                = check_formulas(NoComments(last_call[1].before.statements))
          /\ NoComments(last_call[1].before.statements) = <<>> =>
                /\ last_call[1].raised = ""
                /\ last_call[1].returned
                      = [satisfiable |-> TRUE, info_states |-> <<>>]

\* a check of a theory of one comment and one formula, which submits the
\* formula alone
C34_Witness ==
    /\ Called("check_satisfiability")
    /\ last_call[1].raised = ""
    /\ Len(last_call[1].formulas) = 1
    /\ Len(last_call[1].before.statements) = 2
    /\ \E i \in 1..2 :
          last_call[1].before.statements[i].formula = Comment("PARSE ERROR")

\* the t-signed restricted universals of the theory with an atomic unary
\* restriction and matrix
AtomicUniversals ==
    {i \in 1..Len(statements) :
        /\ statements[i].sign = "t"
        /\ "formula" \in DOMAIN statements[i].formula
        /\ statements[i].formula.formula.kind = "Universal"
        /\ statements[i].formula.formula.restriction.kind = "Predicate"
        /\ statements[i].formula.formula.matrix.kind = "Predicate"}

\* C35: after infer_consequences returns with no oracle installed, for
\* every t-signed universal [forall X P(X)]Q(X) and every constant c with
\* t : P(c) in the theory, the theory contains the statement t : Q(c).
C35_ChainingFixedPoint ==
    (Called("infer_consequences") /\ ~last_call[1].has_evaluator) =>
        \A i \in AtomicUniversals : \A c \in TheoryConstants :
            LET universal == statements[i].formula.formula
                P_c == [universal.restriction EXCEPT !.terms = <<c>>]
                Q_c == [universal.matrix EXCEPT !.terms = <<c>>]
            IN  TrueStatements(statements, P_c) # {} =>
                    TrueStatements(statements, Q_c) # {}

\* a call of infer_consequences on the theory as it is returns nothing and
\* changes nothing, whatever the iteration order and the oracle's verdicts
InferChangesNothing ==
    \A order \in Orders(TheoryConstants) :
        \A verdicts \in [1..Len(new_inferences(statements, order)) ->
                            IF llm_evaluator THEN Verdicts ELSE {None}] :
            LET after == infer_consequences(llm_evaluator, order, verdicts)
            IN  /\ after.inferred = <<>>
                /\ after.statements = statements
                /\ after.next_id = next_id

\* C36: a second infer_consequences right after a first one returns an
\* empty list and leaves statements and next_id as they are, with or
\* without an oracle.
C36_InferIdempotent ==
    Called("infer_consequences") => InferChangesNothing

\* the same with no oracle installed
IdempotentWithoutOracle ==
    (Called("infer_consequences") /\ ~llm_evaluator) => InferChangesNothing

\* the formula texts forward chaining derives from the statements of the
\* theory that were not inferred
Derivable ==
    LET asserted == SelectSeq(statements, LAMBDA x : ~x.is_inferred)
    IN  UNION {{formula_str(new_inferences(asserted, order)[k].pred,
                            new_inferences(asserted, order)[k].const) :
                    k \in 1..Len(new_inferences(asserted, order))} :
                order \in Orders(TheoryConstants)}

\* C37: after any sequence of assert_statement, retract_statement and
\* infer_consequences, every statement produced by forward chaining is
\* derivable by forward chaining from the statements of the theory that
\* were not inferred.
C37_InferredStayDerivable ==
    \A i \in 1..Len(statements) :
        statements[i].source = "forward_chaining" =>
            statements[i].formula \in Derivable

\* the statements of stmts with the id of statement x
WithId(stmts, x) == {i \in 1..Len(stmts) : stmts[i].id = x.id}

\* C38: after any sequence of assert_statement, retract_statement,
\* infer_consequences and check_satisfiability, the ids of the theory are
\* pairwise distinct and next_id is above the number of every id; no call
\* lowers next_id, every statement a call adds has a number from the
\* next_id the call started with on, so no id is issued twice, and a call
\* that adds leaves the statements it found as they were.
C38_IdsNeverReused ==
    /\ \A i \in 1..Len(statements) : statements[i].id.n < next_id
    /\ \A i, j \in 1..Len(statements) :
          i # j => statements[i].id.n # statements[j].id.n
    /\ last_call # <<>> =>
          LET before == last_call[1].before
          IN  /\ before.next_id <= next_id
              /\ \A i \in 1..Len(statements) :
                    WithId(before.statements, statements[i]) = {} =>
                        statements[i].id.n >= before.next_id
              /\ \A i \in 1..Len(before.statements) :
                    \/ \E j \in 1..Len(statements) :
                          statements[j] = before.statements[i]
                    \/ /\ Called("retract_statement")
                       /\ last_call[1].stmt_id = before.statements[i].id

\* an assert_statement after a retract_statement: the theory holds one
\* statement, and its id is the second one issued
C38_Witness ==
    /\ Called("assert_statement")
    /\ last_call[1].raised = ""
    /\ last_call[1].returned.n = 2
    /\ Len(statements) = 1

\* C39: check_satisfiability submits the formula of each statement under
\* the sign stored in the statement, and reports a theory of t : P(a) and
\* n : P(a) unsatisfiable.
C39_StoredSignSubmitted ==
    Called("check_satisfiability") =>
        LET submitted == SelectSeq(last_call[1].before.statements, usable)
        IN  /\ Len(last_call[1].formulas) = Len(submitted)
            /\ \A k \in 1..Len(submitted) :
                  last_call[1].formulas[k]
                      = SignedFormula(submitted[k].sign,
                                      parse_acrq_formula(submitted[k].formula))
            /\ (/\ Len(submitted) = 2
                /\ {submitted[1].sign, submitted[2].sign} = {"t", "n"}
                /\ \A k \in 1..2 :
                      submitted[k].formula = Text(Px("a"), "plain")
                /\ last_call[1].raised = "") =>
                   ~last_call[1].returned.satisfiable

\* check_satisfiability reports a theory of t : P(a) and n : P(a)
\* unsatisfiable
NonTrueContradictsTrue ==
    Called("check_satisfiability") =>
        LET submitted == SelectSeq(last_call[1].before.statements, usable)
        IN  (/\ Len(submitted) = 2
             /\ {submitted[1].sign, submitted[2].sign} = {"t", "n"}
             /\ \A k \in 1..2 :
                   submitted[k].formula = Text(Px("a"), "plain")
             /\ last_call[1].raised = "") =>
                ~last_call[1].returned.satisfiable

\* C40: after load() the theory has the statements and the next_id it
\* had when save() wrote the file, and the numbers of the loaded ids are
\* below next_id, so the next statement asserted gets an id no loaded
\* statement has.
C40_SaveLoadRoundTrip ==
    (Called("load") /\ last_call[1].raised = "") =>
        /\ statements = theory_file[1].written_from.statements
        /\ next_id = theory_file[1].written_from.next_id
        /\ \A i \in 1..Len(statements) : statements[i].id.n < next_id

\* a load that brings back statements the theory no longer had
C40_Witness ==
    /\ Called("load")
    /\ last_call[1].raised = ""
    /\ Len(statements) = 3
    /\ last_call[1].before.statements = <<>>
    /\ \E i \in 1..3 : statements[i].is_inferred

=============================================================================
